---- MODULE Spec2Model ----
(***************************************************************************)
(* Streaming translation pipeline of ai-T.                                 *)
(*                                                                         *)
(*   ApiClient::stream_chat        src/api/client.rs                       *)
(*   Translator::translate         src/api/translator.rs                   *)
(*   TranslateApp (UI, forwarder)  src/ui/app.rs                           *)
(*   TranslationCache              src/utils/cache.rs                      *)
(*                                                                         *)
(* Text is a sequence of one-character strings.  A chunk object of the     *)
(* wire format is written in a short form that keeps the structure the     *)
(* parser looks at:  {"<content>"}  is a chunk whose first choice carries  *)
(* delta.content = <content>,  {}  is a chunk without choice or without    *)
(* content, and every other payload is not a chunk (serde_json fails).     *)
(***************************************************************************)
EXTENDS Integers, Sequences, FiniteSets, TLC

\* ---------------------------------------------------------------- bounds
MaxCalls == 1        \* translations started by the UI in one run
MaxRestarts == 1     \* translations more that the UI starts where restarts
                     \* are looked at
MaxFrames == 2       \* frames of a response body before its end
MaxTime == 1         \* largest epoch second the clock reaches
MaxEntries == 2      \* size limit of the cache that is driven directly; it
                     \* stands for MAX_CACHE_SIZE (1000)
AudioMaxEntries == 2  \* size limit of the audio cache; it stands for
                      \* max_entries = 100 (services/audio/mod.rs:67)
AudioCleanupSize == 1 \* entries removed when the audio cache is over its
                      \* limit; it stands for CLEANUP_SIZE = 20 (mod.rs:262)
MaxTokens == 4       \* pieces a response text is put together from
CleanupBatch == 1    \* entries removed when that cache is over its limit;
                     \* it stands for CLEANUP_SIZE (100)

Calls == 1 .. MaxCalls + MaxRestarts

\* ------------------------------------------------------------------ text
LF == "\n"
CR == "\r"
Whitespace == {" ", "\t", LF, CR}

DataPrefix == <<"d", "a", "t", "a", ":", " ">>
DoneLiteral == <<"[", "D", "O", "N", "E", "]">>

StartsWith(s, p) == Len(s) >= Len(p) /\ SubSeq(s, 1, Len(p)) = p

StripPrefix(s, p) == SubSeq(s, Len(p) + 1, Len(s))

RECURSIVE TrimStart(_)
TrimStart(s) ==
    IF s # <<>> /\ Head(s) \in Whitespace THEN TrimStart(Tail(s)) ELSE s

RECURSIVE TrimEnd(_)
TrimEnd(s) ==
    IF s # <<>> /\ s[Len(s)] \in Whitespace
    THEN TrimEnd(SubSeq(s, 1, Len(s) - 1))
    ELSE s

Trim(s) == TrimEnd(TrimStart(s))

StripCR(line) ==
    IF line # <<>> /\ line[Len(line)] = CR
    THEN SubSeq(line, 1, Len(line) - 1)
    ELSE line

\* str::lines(): lines end at LF or CR LF; a last line without a line break
\* is a line too; no empty line follows a final line break.
RECURSIVE LinesFrom(_, _)
LinesFrom(s, cur) ==
    IF s = <<>> THEN (IF cur = <<>> THEN <<>> ELSE <<cur>>)
    ELSE IF Head(s) = LF THEN <<StripCR(cur)>> \o LinesFrom(Tail(s), <<>>)
    ELSE LinesFrom(Tail(s), Append(cur, Head(s)))

Lines(data) == LinesFrom(data, <<>>)

\* ------------------------------------------------- Result<String> values
Ok(text) == [ok |-> TRUE, val |-> text]
Err(kind) == [ok |-> FALSE, val |-> <<kind>>]

IsEmptyOk(v) == v.ok /\ v.val = <<>>
IsDelta(v) == v.ok /\ v.val # <<>>

\* -------------------------------------------------- stream chunk parsing
Quote == "\""

\* serde_json::from_str::<StreamChunk>: surrounding whitespace is allowed,
\* anything else around or inside the object makes the parse fail.
ParseChunk(json_str) ==
    LET t == Trim(json_str)
        n == Len(t)
    IN  IF t = <<"{", "}">>
        THEN [valid |-> TRUE, has |-> FALSE, content |-> <<>>]
        ELSE IF /\ n >= 4
                /\ t[1] = "{" /\ t[2] = Quote
                /\ t[n - 1] = Quote /\ t[n] = "}"
                /\ \A i \in 3 .. n - 2 : t[i] \notin {Quote, "{", "}", LF}
        THEN [valid |-> TRUE, has |-> TRUE, content |-> SubSeq(t, 3, n - 2)]
        ELSE [valid |-> FALSE, has |-> FALSE, content |-> <<>>]

\* Variant: the last line of a read is skipped whatever it starts with.
RECURSIVE ProcessLinesSkipLast(_, _, _)
ProcessLinesSkipLast(lines, i, out) ==
    IF i >= Len(lines) THEN [out |-> out, done |-> FALSE]
    ELSE IF StartsWith(lines[i], DataPrefix)
    THEN LET json_str == StripPrefix(lines[i], DataPrefix)
             chunk == ParseChunk(json_str)
         IN  IF Trim(json_str) = DoneLiteral
             THEN [out |-> Append(out, Ok(<<>>)), done |-> TRUE]
             ELSE IF chunk.valid /\ chunk.has
             THEN ProcessLinesSkipLast(lines, i + 1, Append(out, Ok(chunk.content)))
             ELSE ProcessLinesSkipLast(lines, i + 1, out)
    ELSE ProcessLinesSkipLast(lines, i + 1, out)

\* The body of the  for (i, line) in lines  loop of stream_chat: the values
\* sent for the lines i.. of one read, and whether [DONE] ended the task.
RECURSIVE ProcessLines(_, _, _)
ProcessLines(lines, i, out) ==
    IF i > Len(lines) THEN [out |-> out, done |-> FALSE]
    ELSE IF i = Len(lines) /\ ~StartsWith(lines[i], DataPrefix)
    THEN ProcessLines(lines, i + 1, out)
    ELSE IF StartsWith(lines[i], DataPrefix)
    THEN LET json_str == StripPrefix(lines[i], DataPrefix)
             chunk == ParseChunk(json_str)
         IN  IF Trim(json_str) = DoneLiteral
             THEN [out |-> Append(out, Ok(<<>>)), done |-> TRUE]
             ELSE IF chunk.valid /\ chunk.has
             THEN ProcessLines(lines, i + 1, Append(out, Ok(chunk.content)))
             ELSE ProcessLines(lines, i + 1, out)
    ELSE ProcessLines(lines, i + 1, out)

\* One  Ok(chunk)  arm: the read is appended to the buffer and the lines of
\* the buffer are processed.
ProcessRead(buf, chunk) == ProcessLines(Lines(buf \o chunk), 1, <<>>)

\* What is left in the buffer after a read: buffer.clear().
BufferAfterRead(buf, chunk) == <<>>


\* ------------------------------------------------ Option<T>: None, Some
None == <<>>
Some(x) == <<x>>

\* -------------------------------------- parse_translation_and_keywords
TranslationMarker == <<"[", "T", "r", "a", "n", "s", "l", "a", "t", "i", "o", "n", "]">>
TerminologyMarker == <<"[", "T", "e", "r", "m", "i", "n", "o", "l", "o", "g", "y", "]">>

\* str::find: the first position (from 1) where sub starts in s, 0 if none.
Find(s, sub) ==
    LET hits == {i \in 1 .. Len(s) - Len(sub) + 1 : SubSeq(s, i, i + Len(sub) - 1) = sub}
    IN  IF hits = {} THEN 0 ELSE CHOOSE i \in hits : \A j \in hits : i <= j

Contains(s, sub) == Find(s, sub) # 0

\* panic: the slice  response[a..b]  with a > b aborts the calling task.
parse_translation_and_keywords(response, enable_keyword_analysis) ==
    IF ~enable_keyword_analysis
    THEN [panic |-> FALSE, translation |-> response, keyword_analysis |-> None]
    ELSE IF Contains(response, TranslationMarker) /\ Contains(response, TerminologyMarker)
    THEN LET translation_start == Find(response, TranslationMarker)
             terminology_start == Find(response, TerminologyMarker)
             from == translation_start + Len(TranslationMarker)
             terminology ==
                 Trim(SubSeq(response, terminology_start + Len(TerminologyMarker),
                             Len(response)))
         IN  IF from > terminology_start
             THEN [panic |-> TRUE, translation |-> <<>>, keyword_analysis |-> None]
             ELSE [panic |-> FALSE,
                   translation |-> Trim(SubSeq(response, from, terminology_start - 1)),
                   keyword_analysis |->
                       IF terminology = <<>> THEN None ELSE Some(terminology)]
    ELSE [panic |-> FALSE, translation |-> response, keyword_analysis |-> None]

\* ------------------------------------------------------ TranslationCache
MAX_CACHE_SIZE == 1000
CLEANUP_SIZE == 100

BoolText(b) == IF b THEN <<"t", "r", "u", "e">> ELSE <<"f", "a", "l", "s", "e">>

\* Variant: the source text is not part of the key.
generate_key_without_text(source_text, target_language, enable_keyword_analysis) ==
    target_language \o <<":", ":">> \o BoolText(enable_keyword_analysis)
        \o <<":", ":">>

\* format!("{}::{}::{}", target_language, enable_keyword_analysis, source_text)
generate_key(source_text, target_language, enable_keyword_analysis) ==
    target_language \o <<":", ":">> \o BoolText(enable_keyword_analysis)
        \o <<":", ":">> \o source_text

CacheEntry(translation, keyword_analysis, timestamp) ==
    [translation |-> translation, keyword_analysis |-> keyword_analysis,
     timestamp |-> timestamp]

EmptyMap == [k \in {} |-> None]

\* Variant: an entry that is present is kept.
MapInsertKeep(m, k, e) ==
    [x \in DOMAIN m \cup {k} |-> IF x \in DOMAIN m THEN m[x] ELSE e]

MapInsert(m, k, e) == [x \in DOMAIN m \cup {k} |-> IF x = k THEN e ELSE m[x]]
MapRemove(m, R) == [x \in DOMAIN m \ R |-> m[x]]

Min(a, b) == IF a < b THEN a ELSE b

\* Variant: the entries are not sorted before the first n are taken.
AnySets(m, n) ==
    {R \in SUBSET DOMAIN m : Cardinality(R) = Min(n, Cardinality(DOMAIN m))}

\* The sets of n keys that a sort by timestamp can put first (the order of
\* entries with equal timestamps is that of the HashMap iteration).
OldestSets(m, n) ==
    {R \in SUBSET DOMAIN m :
        /\ Cardinality(R) = Min(n, Cardinality(DOMAIN m))
        /\ \A r \in R, k \in DOMAIN m \ R : m[r].timestamp <= m[k].timestamp}

\* Variant: the size of the map is never looked at.
CacheSetNoCleanup(m, key, entry, max, cleanup) == {MapInsert(m, key, entry)}

\* The maps TranslationCache::set can leave: insert, then the cleanup when
\* the size exceeds the limit.  max and cleanup stand for MAX_CACHE_SIZE and
\* CLEANUP_SIZE.
CacheSetWith(m, key, entry, max, cleanup) ==
    LET inserted == MapInsert(m, key, entry)
    IN  IF Cardinality(DOMAIN inserted) > max
        THEN {MapRemove(inserted, R) : R \in OldestSets(inserted, cleanup)}
        ELSE {inserted}

CacheSetResults(m, key, entry) ==
    CacheSetWith(m, key, entry, MAX_CACHE_SIZE, CLEANUP_SIZE)

\* TranslationCache::get
CacheGet(m, source_text, target_language, enable_keyword_analysis) ==
    LET key == generate_key(source_text, target_language, enable_keyword_analysis)
    IN  IF key \in DOMAIN m
        THEN Some(<<m[key].translation, m[key].keyword_analysis>>)
        ELSE None

\* serde_json::to_string of the map: a JSON object with one member per key;
\* keyword_analysis is left out when it is None (skip_serializing_if).
to_string(m) ==
    [k \in DOMAIN m |->
        IF m[k].keyword_analysis = None
        THEN [translation |-> m[k].translation, timestamp |-> m[k].timestamp]
        ELSE [translation |-> m[k].translation,
              keyword_analysis |-> m[k].keyword_analysis[1],
              timestamp |-> m[k].timestamp]]

\* serde_json::from_str::<HashMap<String, CacheEntry>>: a member without
\* keyword_analysis gives None.
from_str(content) ==
    [k \in DOMAIN content |->
        CacheEntry(content[k].translation,
                   IF "keyword_analysis" \in DOMAIN content[k]
                   THEN Some(content[k].keyword_analysis) ELSE None,
                   content[k].timestamp)]

\* The cache file: absent, or the serialized map.
NoFile == [exists |-> FALSE, content |-> to_string(EmptyMap)]
SavedFile(m) == [exists |-> TRUE, content |-> to_string(m)]

load_from_file(file) == from_str(file.content)

\* TranslationCache::new: the map read from the file when there is one.
CacheNewMap(file) == IF file.exists THEN load_from_file(file) ELSE EmptyMap

\* ------------------------------------------------------ response bodies
\* Payloads of the  data:  lines a server sends: chunks with content, a chunk
\* with empty content, a chunk without content, and a line that is no JSON.
Letters == {"a", "b"}
DeltaPayload(t) == <<"{", Quote>> \o t \o <<Quote, "}">>
NoContentPayload == <<"{", "}">>
BadPayload == <<"{", "x">>

ValidPayloads ==
    {DeltaPayload(<<l>>) : l \in Letters} \cup {DeltaPayload(<<>>), NoContentPayload}
Payloads == ValidPayloads \cup {BadPayload}

Eols == {<<LF, LF>>, <<CR, LF>>}

RECURSIVE FrameText(_, _)
FrameText(frames, eol) ==
    IF frames = <<>> THEN <<>>
    ELSE DataPrefix \o Head(frames) \o eol \o FrameText(Tail(frames), eol)

BodyOf(frames, eol, done) ==
    FrameText(frames, eol) \o (IF done THEN DataPrefix \o DoneLiteral \o eol ELSE <<>>)

SeqsUpTo(S, n) == UNION {[1 .. k -> S] : k \in 0 .. n}

\* kind: "ok" (success status and a body), "status" (non-success status),
\* "neterr" (the request itself fails).  fail: the transport fails while the
\* body is read.  cuts: where a network read may end ("any" position, only
\* after a "line" break, or only at the end of the "body").
OkResponse(frames, eol, done, fail, cuts) ==
    [kind |-> "ok", frames |-> frames, body |-> BodyOf(frames, eol, done),
     done |-> done, fail |-> fail, cuts |-> cuts]
StatusResponse ==
    [kind |-> "status", frames |-> <<>>, body |-> <<>>, done |-> FALSE,
     fail |-> FALSE, cuts |-> "any"]
NetErrResponse ==
    [kind |-> "neterr", frames |-> <<>>, body |-> <<>>, done |-> FALSE,
     fail |-> FALSE, cuts |-> "any"]
NoResponse ==
    [kind |-> "none", frames |-> <<>>, body |-> <<>>, done |-> FALSE,
     fail |-> FALSE, cuts |-> "any"]

StreamResponses ==
    {OkResponse(fs, eol, done, fail, "any") :
        fs \in SeqsUpTo(Payloads, MaxFrames), eol \in Eols,
        done \in BOOLEAN, fail \in BOOLEAN}
    \cup {StatusResponse, NetErrResponse}

\* ------------------------------------------------------------- the state
VARIABLES
    \* stream_chat task of each call (client.rs)
    stResp,        \* the response the server gives to the call's request
    stPc,          \* "idle", "send", "read", "done"
    stPos,         \* characters of the body already read
    buffer,        \* buffer: Vec<u8>
    stQ,           \* values sent on tx and not yet received
    stHist,        \* history: every value sent on tx
    stTerm,        \* history: number of terminal sends (lines 140,166,190,196,200)
    stAligned,     \* history: every read so far ended at a line break
    stReads        \* history: reads taken from the body (0, 1, 2 = two or more)

streamVars ==
    <<stResp, stPc, stPos, buffer, stQ, stHist, stTerm, stAligned, stReads>>

\* ---------------------------------------------- translator task state
VARIABLES
    trPc,            \* "idle", "start", "recv", "done", "panicked"
    full_response,   \* full_response: String of the task
    txQ,             \* values sent on translate's tx and not yet received
    txHist           \* history: every value translate sent (or tried to send)

transVars == <<trPc, full_response, txQ, txHist>>

\* ----------------------------------------------- forwarding task state
VARIABLES
    req,             \* source_text, target_language, enable_keyword_analysis
    fwPc,            \* "idle", "spawned", "wait", "done"
    armed,           \* the sleep branch of the current select! is enabled
    uiHist,          \* history: the UI messages the task of each call sent
    found            \* history: what cache.get returned in translate

fwdVars == <<req, fwPc, armed, uiHist, found>>

\* -------------------------------------------------------- TranslateApp
VARIABLES
    calls,               \* translations started so far
    is_translating,
    cancel_requested,
    display_translation, \* display.translation
    display_error,       \* display.error_message
    uiQ,                 \* ui_tx / ui_rx
    enable_keyword_analysis, \* config.enable_keyword_analysis, a setting
                         \* that stays as it is during a run
    cancelEarly,         \* history: cancel was requested while the call's
                         \* forwarding loop had not received a terminal value
    refused              \* history: start_translation was invoked and
                         \* returned at once since the last translation began

uiVars ==
    <<calls, is_translating, cancel_requested, display_translation,
      display_error, uiQ, enable_keyword_analysis, cancelEarly, refused>>

\* ---------------------------------------------------- TranslationCache
VARIABLES
    cache,           \* HashMap<String, CacheEntry>
    cache_file,      \* the persisted cache file
    clock,           \* chrono::Utc::now().timestamp()
    cacheWrites,     \* history: the calls whose translator task called set
    cacheOp,         \* history: the last call on the cache, its arguments,
                     \* the map it found and what it returned
    setBy,           \* history: for each key, the arguments of the set
                     \* that stored the entry the map holds (or held last)
    fileBy,          \* history: the same for the entries in the file
    cache_call       \* for each thread that calls the cache while another
                     \* may: where its call is ("idle", or "save": set
                     \* has left its block and not yet saved), and whether
                     \* the call ran while a call of another thread did

cacheVars ==
    <<cache, cache_file, clock, cacheWrites, cacheOp, setBy, fileBy, cache_call>>

\* ----------------------------------------------------------- AudioCache
VARIABLES
    audio_cache,     \* HashMap<String, AudioCacheEntry>
    audio_files,     \* the audio files that exist on disk (paths)
    index_file,      \* the persisted cache_index.json
    audio_mutex,     \* the thread that holds the Mutex of the map, or NoThread
    audio_poisoned,  \* a thread panicked while it held the Mutex
    audio_call,      \* per thread: the AudioCache call it is in and its locals
    audio_stored,    \* history: text -> path of the last set of that text
                     \* that returned, while the file has existed ever since
    audio_cached     \* history: the paths the cache has loaded or a set has
                     \* put into the map since the last clear, and whose
                     \* file has not been deleted since

audioVars ==
    <<audio_cache, audio_files, index_file, audio_mutex, audio_poisoned, audio_call,
      audio_stored, audio_cached>>

\* ------------------------------------------------------ TTS conversions
VARIABLES
    tts_cancel_requested,  \* source_tts_cancel_requested and
                           \* translation_tts_cancel_requested, by TtsType
    tts_converting,        \* display: source_tts_converting and
                           \* translation_tts_converting, by TtsType
    tts_audio_path,        \* display: source_audio_path and
                           \* translation_audio_path, by TtsType
    tts_task               \* per conversion thread: the conversion it runs

ttsVars == <<tts_cancel_requested, tts_converting, tts_audio_path, tts_task>>

pipeVars == <<transVars, fwdVars, uiVars, cacheVars, audioVars, ttsVars>>

\* The threads that call into the AudioCache: every TTS conversion runs
\* its completion callback (set) on a thread of its own, the one
\* convert_async spawns; get, clear and len are called on the UI thread.
TtsThreads == {"tts_thread_1", "tts_thread_2"}
UiThread == "ui"
AudioThreads == TtsThreads \cup {UiThread}
NoThread == "none"

TtsTypes == {"Source", "Translation"}

\* The conversion a thread runs.  pc: "idle" (no conversion yet), "spawned"
\* (the task start_tts spawns, before its test of the cancel flag),
\* "converting" (the thread of convert_async, in converter.convert),
\* "callback" (the callback is called with the status), "set" (the
\* callback, at audio_cache.set and until it has sent its message), "done".
\* completed: the status is Completed, not Failed.  History: cancelled
\* (cancel_tts has acted on the type of this conversion before its callback
\* tested the flag), stored (the callback has called audio_cache.set), sent
\* (it has sent its completion message).
NoTtsTask ==
    [pc |-> "idle", tts_type |-> "none", text |-> <<>>, audio_path |-> <<>>,
     completed |-> FALSE, cancelled |-> FALSE, stored |-> FALSE, sent |-> FALSE]

\* generate_key: the hexadecimal digest of the text, modelled as a tag on the
\* text (different texts get different keys).
AudioKey(text) == <<"#">> \o text

\* get_new_audio_path: cache_dir/<key>.wav
NewAudioPath(text) == AudioKey(text) \o <<".wav">>

AudioCacheEntry(audio_path, timestamp) ==
    [audio_path |-> audio_path, timestamp |-> timestamp]

\* The index entries save_cache_index collects from the map (a Vec in the
\* order of the HashMap iteration; the order carries no information).
IndexEntries(m) ==
    {[audio_path |-> m[k].audio_path, timestamp |-> m[k].timestamp,
      text_hash |-> k] : k \in DOMAIN m}

NoIndexFile == [exists |-> FALSE, content |-> {}]

\* The locals of a call on the AudioCache.  pc: "idle" (no call, or the
\* call has returned), "set_lock" (set at its lock), "cleanup_save" (in
\* cleanup_oldest_entries, at the call of save_cache_index, the guard of set
\* still alive), "save_lock" (save_cache_index at its lock, called from
\* set), "save_write" (save_cache_index after drop(cache)), "blocked" (in a
\* lock() that cannot return), "panicked".  over: the insert of this set
\* took the map over max_entries.  outcome: how the last call ended (the
\* other locals are dropped when a call returns).
\* For get: "get_lock"; for clear: "clear_lock" (at its first lock) and
\* "clear_again" (at its second).  result: what get returned.  referenced:
\* the paths the entries held when clear took its first lock.  failed: a
\* removal of this clear failed.
NoAudioCall ==
    [pc |-> "idle", text |-> <<>>, audio_path |-> <<>>, entry |-> None,
     index_entries |-> {}, over |-> FALSE, evicted |-> {}, outcome |-> "none",
     result |-> None, referenced |-> {}, failed |-> FALSE]

\* The outcomes of removing files: removals holds TRUE when remove_file can
\* succeed and FALSE when it can fail; the result is the set of files that
\* stay because their removal failed.
FailSets(paths, removals) ==
    {F \in SUBSET paths : (F = {} \/ FALSE \in removals) /\ (F = paths \/ TRUE \in removals)}

StoredWithout(stored, gone) ==
    [x \in {y \in DOMAIN stored : stored[y] \notin gone} |-> stored[x]]

\* Variant: every entry of the index is loaded, its audio file existing or
\* not.
AudioLoadNoCheck(index, files) ==
    IF ~index.exists THEN EmptyMap
    ELSE [k \in {e.text_hash : e \in index.content} |->
            LET e == CHOOSE e \in index.content : e.text_hash = k
            IN  AudioCacheEntry(e.audio_path, e.timestamp)]

\* load_cache_from_index: no index file, no entries; else the entries of
\* the index whose audio file exists, under their text_hash.
AudioLoad(index, files) ==
    IF ~index.exists THEN EmptyMap
    ELSE LET kept == {e \in index.content : e.audio_path \in files}
         IN  [k \in {e.text_hash : e \in kept} |->
                LET e == CHOOSE e \in kept : e.text_hash = k
                IN  AudioCacheEntry(e.audio_path, e.timestamp)]

MapPaths(m) == {m[k].audio_path : k \in DOMAIN m}

vars == <<streamVars, pipeVars>>

\* Two threads that hold the same TranslationCache (an Arc clone each, as
\* the translator tasks of two translations do).
CacheThreads == {"task1", "task2"}

NoCacheCall == [pc |-> "idle", overlap |-> FALSE]

\* ------------------------------------------- calls on TranslationCache
Triple(text, lang, flag) == [text |-> text, lang |-> lang, flag |-> flag]

NoOp ==
    [op |-> "none", text |-> <<>>, lang |-> <<>>, flag |-> FALSE, key |-> <<>>,
     translation |-> <<>>, keyword_analysis |-> None, before |-> EmptyMap,
     saved |-> FALSE, removed |-> FALSE, result |-> None]

\* set(source_text, target_language, enable_keyword_analysis, translation,
\* keyword_analysis) with the limits max and cleanup: the entry is stamped
\* with the current second, inserted, the oldest entries are removed when
\* the map is over the limit, and the map is written to the file (saved:
\* the write succeeds; a failure is logged and set returns all the same;
\* times: the seconds the clock can show at the call; writes: the outcomes
\* the file system can give).  The translations of one run of the
\* application are taken to fall into one second of the clock.
CacheSet(text, lang, flag, translation, keyword_analysis, max, cleanup, times, writes) ==
    \E now \in times, saved \in writes :
        LET key == generate_key(text, lang, flag)
        IN  /\ clock' = now
            /\ \E m \in CacheSetWith(cache, key,
                         CacheEntry(translation, keyword_analysis, now),
                         max, cleanup) :
                  /\ cache' = m
                  /\ cache_file' = IF saved THEN SavedFile(m) ELSE cache_file
            /\ cacheOp' = [op |-> "set", text |-> text, lang |-> lang,
                           flag |-> flag, key |-> key,
                           translation |-> translation,
                           keyword_analysis |-> keyword_analysis,
                           before |-> cache, saved |-> saved, removed |-> FALSE,
                           result |-> None]
            /\ setBy' = MapInsert(setBy, key, Triple(text, lang, flag))
            /\ fileBy' = IF saved THEN setBy' ELSE fileBy

\* get(source_text, target_language, enable_keyword_analysis)
CacheLookup(text, lang, flag) ==
    /\ cacheOp' = [NoOp EXCEPT !.op = "get", !.text = text, !.lang = lang,
                                !.flag = flag,
                                !.key = generate_key(text, lang, flag),
                                !.before = cache,
                                !.result = CacheGet(cache, text, lang, flag)]
    /\ UNCHANGED <<cache, cache_file, clock, setBy, fileBy>>

\* clear(): the map is emptied and the cache file removed when it exists
\* (removed: remove_file succeeds; its result is ignored).  The history
\* records whether the file is gone when clear returns.
\* Variant: the file is removed and the map is left as it is.
CacheClearKeepsMap ==
    /\ cache_file' = NoFile
    /\ cacheOp' = [NoOp EXCEPT !.op = "clear", !.before = cache, !.removed = TRUE]
    /\ UNCHANGED <<cache, clock, setBy, fileBy>>

CacheClear ==
    /\ cache' = EmptyMap
    /\ \E removed \in BOOLEAN :
          cache_file' = IF cache_file.exists /\ removed THEN NoFile ELSE cache_file
    /\ cacheOp' = [NoOp EXCEPT !.op = "clear", !.before = cache,
                               !.removed = ~cache_file'.exists]
    /\ UNCHANGED <<clock, setBy, fileBy>>

\* The application is started again: TranslationCache::new on the same file.
\* The history keeps what the call before it was.
CacheNew ==
    /\ cache' = CacheNewMap(cache_file)
    /\ cacheOp' = [cacheOp EXCEPT !.op = "new", !.before = cache,
                                  !.saved = (cacheOp.op = "set" /\ cacheOp.saved),
                                  !.removed = (cacheOp.op = "clear" /\ cacheOp.removed),
                                  !.result = None]
    /\ setBy' = fileBy
    /\ UNCHANGED <<cache_file, clock, fileBy>>

\* --------------------------------------------------- stream_chat task
\* Variant: the status of the response is not looked at.
StatusIgnored(resp) == TRUE

\* status.is_success()
IsSuccess(resp) == resp.kind = "ok"

CutAllowed(resp, p) ==
    \/ resp.cuts = "any"
    \/ p = Len(resp.body)
    \/ resp.cuts = "line" /\ resp.body[p] = LF

StreamSendAll(c, vals) ==
    /\ stQ' = [stQ EXCEPT ![c] = @ \o vals]
    /\ stHist' = [stHist EXCEPT ![c] = @ \o vals]

\* client.post(..).send().await and the status check
StreamRequest(c) ==
    /\ stPc[c] = "send"
    /\ IF stResp[c].kind = "neterr"
       THEN /\ StreamSendAll(c, <<Err("NetworkError")>>)
            /\ stPc' = [stPc EXCEPT ![c] = "done"]
            /\ stTerm' = [stTerm EXCEPT ![c] = @ + 1]
       ELSE IF ~IsSuccess(stResp[c])
       THEN /\ StreamSendAll(c, <<Err("ApiError")>>)
            /\ stPc' = [stPc EXCEPT ![c] = "done"]
            /\ stTerm' = [stTerm EXCEPT ![c] = @ + 1]
       ELSE /\ stPc' = [stPc EXCEPT ![c] = "read"]
            /\ UNCHANGED <<stQ, stHist, stTerm>>
    /\ UNCHANGED <<stResp, stPos, buffer, stAligned, stReads, pipeVars>>

\* stream.next() yields Ok(chunk): one network read of n characters
StreamRead(c) ==
    /\ stPc[c] = "read"
    /\ \E n \in 1 .. Len(stResp[c].body) - stPos[c] :
        /\ CutAllowed(stResp[c], stPos[c] + n)
        /\ \E chunk \in {SubSeq(stResp[c].body, stPos[c] + 1, stPos[c] + n)} :
           \E r \in {ProcessRead(buffer[c], chunk)} :
            /\ StreamSendAll(c, r.out)
            /\ stPc' = [stPc EXCEPT ![c] = IF r.done THEN "done" ELSE "read"]
            /\ stTerm' = [stTerm EXCEPT ![c] = IF r.done THEN @ + 1 ELSE @]
            /\ stPos' = [stPos EXCEPT ![c] = @ + n]
            /\ buffer' = [buffer EXCEPT ![c] = BufferAfterRead(@, chunk)]
            /\ stAligned' = [stAligned EXCEPT ![c] = @ /\ chunk[n] = LF]
            /\ stReads' = [stReads EXCEPT ![c] = IF @ < 2 THEN @ + 1 ELSE @]
    /\ UNCHANGED <<stResp, pipeVars>>

\* stream.next() yields Err(e)
StreamReadErr(c) ==
    /\ stPc[c] = "read"
    /\ stResp[c].fail
    /\ StreamSendAll(c, <<Err("StreamError")>>)
    /\ stPc' = [stPc EXCEPT ![c] = "done"]
    /\ stTerm' = [stTerm EXCEPT ![c] = @ + 1]
    /\ UNCHANGED <<stResp, stPos, buffer, stAligned, stReads, pipeVars>>

\* Variant: the end of the body closes the channel without a terminal value.
StreamEndSilent(c) ==
    /\ stPc[c] = "read"
    /\ ~stResp[c].fail
    /\ stPos[c] = Len(stResp[c].body)
    /\ stPc' = [stPc EXCEPT ![c] = "done"]
    /\ UNCHANGED <<stResp, stPos, buffer, stQ, stHist, stTerm, stAligned, stReads,
                   pipeVars>>

\* stream.next() yields None: "Stream ended naturally"
StreamEnd(c) ==
    /\ stPc[c] = "read"
    /\ ~stResp[c].fail
    /\ stPos[c] = Len(stResp[c].body)
    /\ StreamSendAll(c, <<Ok(<<>>)>>)
    /\ stPc' = [stPc EXCEPT ![c] = "done"]
    /\ stTerm' = [stTerm EXCEPT ![c] = @ + 1]
    /\ UNCHANGED <<stResp, stPos, buffer, stAligned, stReads, pipeVars>>

\* ------------------------------------------------------------- inputs
Texts == {<<"h">>}
Languages == {<<"z", "h">>}
Flags == BOOLEAN         \* config.enable_keyword_analysis
NoRequest == [text |-> <<>>, lang |-> <<>>, flag |-> FALSE]

\* The responses the server gives to translation requests: a body of two
\* chunks that ends in [DONE], read line by line, during which the transport
\* may fail at any point or not at all; a body whose first chunk has empty
\* content; a body that ends without [DONE]; a non-success status.
PipeResponses ==
    {OkResponse(<<DeltaPayload(<<"a">>), DeltaPayload(<<"b">>)>>, <<LF>>, TRUE, TRUE, "line"),
     OkResponse(<<DeltaPayload(<<>>), DeltaPayload(<<"b">>)>>, <<LF>>, TRUE, FALSE, "body"),
     OkResponse(<<DeltaPayload(<<"a">>)>>, <<LF>>, FALSE, FALSE, "body"),
     StatusResponse}

\* What TranslationCache::new finds: no cache file, or the file an earlier
\* run left behind, with a translation stored without keyword analysis and
\* one stored with it.
LoadedCaches ==
    {EmptyMap,
     MapInsert(MapInsert(EmptyMap,
                         generate_key(<<"h">>, <<"z", "h">>, FALSE),
                         CacheEntry(<<"a", "b">>, None, 0)),
               generate_key(<<"h">>, <<"z", "h">>, TRUE),
               CacheEntry(<<"a">>, Some(<<"k">>), 0))}

UpdateTranslation(chunk) == [type |-> "UpdateTranslation", text |-> chunk]
ErrorMsg(e) == [type |-> "Error", text |-> e]
TranslationComplete == [type |-> "TranslationComplete", text |-> <<>>]
TranslationCancelled == [type |-> "TranslationCancelled", text |-> <<>>]

IsTerminalMsg(m) ==
    m.type \in {"Error", "TranslationComplete", "TranslationCancelled"}

UiSend(c, msg) ==
    /\ uiQ' = Append(uiQ, msg)
    /\ uiHist' = [uiHist EXCEPT ![c] = Append(@, msg)]

\* The sender side of translate's channel is gone: the translator task has
\* ended (or translate returned on a cache hit).
TxClosed(c) == trPc[c] \in {"done", "panicked"}

\* Entry of select!: the precondition of the sleep branch is evaluated once,
\* and a recv that is ready at entry completes before the 100 ms sleep.
SleepArmed(flag, queue, closed) == flag /\ queue = <<>> /\ ~closed

\* Variant: a hit sends the cached translation and the completion signal
\* but not the cached keyword analysis.
CachedReplayNoAnalysis(hit) ==
    IF hit = None THEN <<>> ELSE <<Ok(hit[1][1]), Ok(<<>>)>>

\* What translate sends before it returns: nothing on a miss; on a hit the
\* cached translation, the keyword analysis if there is one, and the empty
\* string that signals completion.
CachedReplay(hit) ==
    IF hit = None THEN <<>>
    ELSE <<Ok(hit[1][1])>>
         \o (IF hit[1][2] = None THEN <<>> ELSE <<Ok(hit[1][2][1])>>)
         \o <<Ok(<<>>)>>

\* ---------------------------------------------------- forwarding task
\* The spawned task starts: translator.translate(..) (cache check, or spawn
\* of the translator task) and the first entry of select!.
FwdStart(c) ==
    /\ fwPc[c] = "spawned"
    /\ LET hit == CacheGet(cache, req[c].text, req[c].lang, req[c].flag)
           cached == CachedReplay(hit)
       IN  /\ txQ' = [txQ EXCEPT ![c] = cached]
           /\ txHist' = [txHist EXCEPT ![c] = cached]
           /\ trPc' = [trPc EXCEPT ![c] = IF hit = None THEN "start" ELSE "done"]
           /\ armed' = [armed EXCEPT
                   ![c] = SleepArmed(cancel_requested, cached, hit # None)]
           /\ found' = [found EXCEPT ![c] = Some(hit)]
    /\ CacheLookup(req[c].text, req[c].lang, req[c].flag)
    /\ fwPc' = [fwPc EXCEPT ![c] = "wait"]
    /\ UNCHANGED <<ttsVars, audioVars, streamVars, full_response, req, uiHist, uiVars, cacheWrites,
                   cache_call>>

\* Variant: the loop does not break after it has sent a terminal message.
FwdRecvGoesOn(c) ==
    /\ fwPc[c] = "wait"
    /\ txQ[c] # <<>> \/ TxClosed(c)
    /\ IF txQ[c] = <<>>
       THEN /\ fwPc' = [fwPc EXCEPT ![c] = "done"]
            /\ UNCHANGED <<txQ, armed, uiQ, uiHist>>
       ELSE LET result == Head(txQ[c])
                rest == Tail(txQ[c])
            IN  /\ txQ' = [txQ EXCEPT ![c] = rest]
                /\ UiSend(c, IF IsDelta(result) THEN UpdateTranslation(result.val)
                                ELSE IF result.ok THEN TranslationComplete
                                ELSE ErrorMsg(result.val))
                /\ armed' = [armed EXCEPT
                       ![c] = SleepArmed(cancel_requested, rest, TxClosed(c))]
                /\ UNCHANGED fwPc
    /\ UNCHANGED <<ttsVars, audioVars, streamVars, trPc, full_response, txHist, req, found, cacheVars,
                   calls, is_translating, cancel_requested, display_translation,
                   display_error, enable_keyword_analysis, cancelEarly, refused>>

\* result = stream_rx.recv()
FwdRecv(c) ==
    /\ fwPc[c] = "wait"
    /\ txQ[c] # <<>> \/ TxClosed(c)
    /\ IF txQ[c] = <<>>
       THEN \* None: "Translation stream ended"
            /\ fwPc' = [fwPc EXCEPT ![c] = "done"]
            /\ UNCHANGED <<txQ, armed, uiQ, uiHist>>
       ELSE LET result == Head(txQ[c])
                rest == Tail(txQ[c])
            IN  /\ txQ' = [txQ EXCEPT ![c] = rest]
                /\ IF IsDelta(result)
                   THEN /\ UiSend(c, UpdateTranslation(result.val))
                        /\ armed' = [armed EXCEPT
                               ![c] = SleepArmed(cancel_requested, rest, TxClosed(c))]
                        /\ UNCHANGED fwPc
                   ELSE /\ UiSend(c, IF result.ok THEN TranslationComplete
                                     ELSE ErrorMsg(result.val))
                        /\ fwPc' = [fwPc EXCEPT ![c] = "done"]
                        /\ UNCHANGED armed
    /\ UNCHANGED <<ttsVars, audioVars, streamVars, trPc, full_response, txHist, req, found, cacheVars,
                   calls, is_translating, cancel_requested, display_translation,
                   display_error, enable_keyword_analysis, cancelEarly, refused>>

\* The sleep of an armed select! completes: "Translation cancelled by user"
FwdTimer(c) ==
    /\ fwPc[c] = "wait"
    /\ armed[c]
    /\ UiSend(c, TranslationCancelled)
    /\ fwPc' = [fwPc EXCEPT ![c] = "done"]
    /\ UNCHANGED <<ttsVars, audioVars, streamVars, transVars, req, armed, found, cacheVars,
                   calls, is_translating, cancel_requested, display_translation,
                   display_error, enable_keyword_analysis, cancelEarly, refused>>

\* ----------------------------------------------------- translator task
\* client.stream_chat(messages).await: the channel is made and the stream
\* task spawned; the server's answer to that request is chosen here.
TrStart(c) ==
    /\ trPc[c] = "start"
    /\ \E resp \in PipeResponses : stResp' = [stResp EXCEPT ![c] = resp]
    /\ stPc' = [stPc EXCEPT ![c] = "send"]
    /\ trPc' = [trPc EXCEPT ![c] = "recv"]
    /\ UNCHANGED <<ttsVars, audioVars, stPos, buffer, stQ, stHist, stTerm, stAligned, stReads,
                   full_response, txQ, txHist, fwdVars, uiVars, cacheVars>>

\* Variant: the value is forwarded but not appended to full_response.
TrRecvNoPush(c) ==
    /\ trPc[c] = "recv"
    /\ stQ[c] # <<>>
    /\ LET result == Head(stQ[c])
       IN  /\ stQ' = [stQ EXCEPT ![c] = Tail(@)]
           /\ txHist' = [txHist EXCEPT ![c] = Append(@, result)]
           /\ txQ' = [txQ EXCEPT
                  ![c] = IF fwPc[c] = "done" THEN @ ELSE Append(@, result)]
    /\ UNCHANGED <<ttsVars, audioVars, stResp, stPc, stPos, buffer, stHist, stTerm, stAligned,
                   stReads, trPc, full_response, fwdVars, uiVars, cacheVars>>

\* One turn of  while let Some(result) = stream_rx.recv().await
TrRecv(c) ==
    /\ trPc[c] = "recv"
    /\ stQ[c] # <<>>
    /\ LET result == Head(stQ[c])
       IN  /\ stQ' = [stQ EXCEPT ![c] = Tail(@)]
           /\ full_response' = [full_response EXCEPT
                  ![c] = IF IsDelta(result) THEN @ \o result.val ELSE @]
           /\ txHist' = [txHist EXCEPT ![c] = Append(@, result)]
           /\ txQ' = [txQ EXCEPT
                  ![c] = IF fwPc[c] = "done" THEN @ ELSE Append(@, result)]
    /\ UNCHANGED <<ttsVars, audioVars, stResp, stPc, stPos, buffer, stHist, stTerm, stAligned,
                   stReads, trPc, fwdVars, uiVars, cacheVars>>

\* recv yields None (channel closed and drained): the loop ends and the
\* response is stored, "after successful translation".
TrFinish(c) ==
    /\ trPc[c] = "recv"
    /\ stQ[c] = <<>>
    /\ stPc[c] = "done"
    /\ IF full_response[c] = <<>>
       THEN /\ trPc' = [trPc EXCEPT ![c] = "done"]
            /\ UNCHANGED cacheVars
       ELSE LET parsed == parse_translation_and_keywords(full_response[c], req[c].flag)
            IN  IF parsed.panic
                THEN /\ trPc' = [trPc EXCEPT ![c] = "panicked"]
                     /\ UNCHANGED cacheVars
                ELSE /\ trPc' = [trPc EXCEPT ![c] = "done"]
                     /\ CacheSet(req[c].text, req[c].lang, req[c].flag,
                                 parsed.translation, parsed.keyword_analysis,
                                 MAX_CACHE_SIZE, CLEANUP_SIZE, {clock}, BOOLEAN)
                     /\ cacheWrites' = cacheWrites \cup {c}
                     /\ UNCHANGED cache_call
    /\ UNCHANGED <<ttsVars, audioVars, streamVars, full_response, txQ, txHist, fwdVars, uiVars>>

\* -------------------------------------------------------- TranslateApp
\* Variant: a start_translation that is refused still resets the cancel
\* flag.
StartRefusedResets ==
    /\ is_translating
    /\ refused' = TRUE
    /\ cancel_requested' = FALSE
    /\ UNCHANGED <<ttsVars, audioVars, streamVars, transVars, fwdVars, cacheVars, calls,
                   is_translating, display_translation, display_error, uiQ,
                   enable_keyword_analysis, cancelEarly>>

\* start_translation with is_translating true: "Translation already in
\* progress, ignoring request"
StartRefused ==
    /\ is_translating
    /\ refused' = TRUE
    /\ UNCHANGED <<ttsVars, audioVars, streamVars, transVars, fwdVars, cacheVars, calls,
                   is_translating, cancel_requested, display_translation,
                   display_error, uiQ, enable_keyword_analysis, cancelEarly>>

\* cancel_tts for each of the given types: when the display shows the
\* conversion of the type under way, set the cancel flag of the type and
\* clear the converting state at once.
CancelTtsTypes(types) ==
    LET hit == {k \in types : tts_converting[k]}
    IN  /\ tts_cancel_requested' =
              [k \in TtsTypes |-> IF k \in hit THEN TRUE ELSE tts_cancel_requested[k]]
        /\ tts_converting' =
              [k \in TtsTypes |-> IF k \in hit THEN FALSE ELSE tts_converting[k]]
        /\ tts_task' =
              [t \in TtsThreads |->
                  IF /\ tts_task[t].tts_type \in hit
                     /\ tts_task[t].pc \in {"spawned", "converting", "callback"}
                  THEN [tts_task[t] EXCEPT !.cancelled = TRUE]
                  ELSE tts_task[t]]

\* start_translation with is_translating false (limit: the translations
\* the UI starts at most); it cancels both TTS conversions
StartCall(limit) ==
    /\ ~is_translating
    /\ calls < limit
    /\ refused' = FALSE
    /\ \E text \in Texts, lang \in Languages :
        req' = [req EXCEPT ![calls + 1] =
                   [text |-> text, lang |-> lang, flag |-> enable_keyword_analysis]]
    /\ calls' = calls + 1
    /\ cancel_requested' = FALSE
    /\ display_translation' = <<>>
    /\ display_error' = None
    /\ is_translating' = TRUE
    /\ fwPc' = [fwPc EXCEPT ![calls + 1] = "spawned"]
    /\ CancelTtsTypes(TtsTypes)
    /\ UNCHANGED <<tts_audio_path, audioVars, streamVars, transVars, armed, uiHist, found,
                   uiQ, enable_keyword_analysis, cancelEarly, cacheVars>>

StartTranslation == StartCall(MaxCalls)

\* start_translation, also after an earlier translation has been cancelled
\* or has ended
StartOrRestart == StartCall(MaxCalls + MaxRestarts)

\* cancel_translation with is_translating true
CancelTranslation ==
    /\ is_translating
    /\ cancel_requested' = TRUE
    /\ cancelEarly' = [cancelEarly EXCEPT
           ![calls] = IF cancel_requested THEN @ ELSE (fwPc[calls] # "done")]
    /\ UNCHANGED <<ttsVars, audioVars, streamVars, transVars, fwdVars, cacheVars, calls, is_translating,
                   display_translation, display_error, uiQ, enable_keyword_analysis,
                   refused>>

RECURSIVE UpdateTexts(_)
UpdateTexts(msgs) ==
    IF msgs = <<>> THEN <<>>
    ELSE (IF Head(msgs).type = "UpdateTranslation" THEN Head(msgs).text ELSE <<>>)
         \o UpdateTexts(Tail(msgs))

RECURSIVE LastError(_, _)
LastError(msgs, err) ==
    IF msgs = <<>> THEN err
    ELSE LastError(Tail(msgs),
                   IF Head(msgs).type = "Error" THEN Some(Head(msgs).text) ELSE err)

TtsStarted(k) == [type |-> "TtsStarted", tts_type |-> k, text |-> <<>>]
TtsCompleted(k, path) == [type |-> "TtsCompleted", tts_type |-> k, text |-> path]
TtsFailed(err) == [type |-> "TtsFailed", tts_type |-> "none", text |-> err]

\* The converting state of a type after the messages: SourceTtsCompleted
\* and TranslationTtsCompleted clear that of their type, TtsFailed both.
RECURSIVE ConvertingAfter(_, _, _)
ConvertingAfter(msgs, k, converting) ==
    IF msgs = <<>> THEN converting
    ELSE ConvertingAfter(Tail(msgs), k,
            IF \/ Head(msgs).type = "TtsFailed"
               \/ Head(msgs).type = "TtsCompleted" /\ Head(msgs).tts_type = k
            THEN FALSE ELSE converting)

\* The audio path the display shows for a type after the messages: that of
\* the last completion message of the type.
RECURSIVE AudioPathAfter(_, _, _)
AudioPathAfter(msgs, k, path) ==
    IF msgs = <<>> THEN path
    ELSE AudioPathAfter(Tail(msgs), k,
            IF Head(msgs).type = "TtsCompleted" /\ Head(msgs).tts_type = k
            THEN Some(Head(msgs).text) ELSE path)

\* The TTS messages of process_messages.
ProcessTtsMessages ==
    /\ tts_converting' = [k \in TtsTypes |-> ConvertingAfter(uiQ, k, tts_converting[k])]
    /\ tts_audio_path' = [k \in TtsTypes |-> AudioPathAfter(uiQ, k, tts_audio_path[k])]
    /\ UNCHANGED <<tts_cancel_requested, tts_task>>

\* Variant: an Error message leaves is_translating as it is.
ProcessMessagesErrorKeeps ==
    /\ uiQ # <<>>
    /\ display_translation' = display_translation \o UpdateTexts(uiQ)
    /\ display_error' = LastError(uiQ, display_error)
    /\ is_translating' =
          (is_translating /\ \A i \in 1 .. Len(uiQ) :
                                 uiQ[i].type \in {"UpdateTranslation", "Error"})
    /\ uiQ' = <<>>
    /\ ProcessTtsMessages
    /\ UNCHANGED <<audioVars, streamVars, transVars, fwdVars, cacheVars, calls,
                   cancel_requested, enable_keyword_analysis, cancelEarly, refused>>

\* process_messages: every queued message is taken and handled in order
ProcessMessages ==
    /\ uiQ # <<>>
    /\ display_translation' = display_translation \o UpdateTexts(uiQ)
    /\ display_error' = LastError(uiQ, display_error)
    /\ is_translating' =
          (is_translating /\ \A i \in 1 .. Len(uiQ) : ~IsTerminalMsg(uiQ[i]))
    /\ uiQ' = <<>>
    /\ ProcessTtsMessages
    /\ UNCHANGED <<audioVars, streamVars, transVars, fwdVars, cacheVars, calls,
                   cancel_requested, enable_keyword_analysis, cancelEarly, refused>>

\* ------------------------------------------------------ specifications
StreamIdle ==
    /\ stPos = [c \in Calls |-> 0]
    /\ buffer = [c \in Calls |-> <<>>]
    /\ stQ = [c \in Calls |-> <<>>]
    /\ stHist = [c \in Calls |-> <<>>]
    /\ stTerm = [c \in Calls |-> 0]
    /\ stAligned = [c \in Calls |-> TRUE]
    /\ stReads = [c \in Calls |-> 0]

\* AudioCache::new on a cache directory without an index file.
AudioIdle ==
    /\ audio_cache = EmptyMap
    /\ audio_files = {}
    /\ index_file = NoIndexFile
    /\ audio_mutex = NoThread
    /\ audio_poisoned = FALSE
    /\ audio_call = [t \in AudioThreads |-> NoAudioCall]
    /\ audio_stored = EmptyMap
    /\ audio_cached = {}

\* TranslateApp::new: no TTS conversion, both cancel flags false.
TtsIdle ==
    /\ tts_cancel_requested = [k \in TtsTypes |-> FALSE]
    /\ tts_converting = [k \in TtsTypes |-> FALSE]
    /\ tts_audio_path = [k \in TtsTypes |-> None]
    /\ tts_task = [t \in TtsThreads |-> NoTtsTask]

PipelineIdle ==
    /\ AudioIdle
    /\ TtsIdle
    /\ trPc = [c \in Calls |-> "idle"]
    /\ full_response = [c \in Calls |-> <<>>]
    /\ txQ = [c \in Calls |-> <<>>]
    /\ txHist = [c \in Calls |-> <<>>]
    /\ req = [c \in Calls |-> NoRequest]
    /\ fwPc = [c \in Calls |-> "idle"]
    /\ armed = [c \in Calls |-> FALSE]
    /\ uiHist = [c \in Calls |-> <<>>]
    /\ found = [c \in Calls |-> None]
    /\ calls = 0
    /\ is_translating = FALSE
    /\ cancel_requested = FALSE
    /\ display_translation = <<>>
    /\ display_error = None
    /\ uiQ = <<>>
    /\ cancelEarly = [c \in Calls |-> FALSE]
    /\ refused = FALSE
    /\ clock = 0
    /\ cacheWrites = {}
    /\ cacheOp = NoOp
    /\ cache_call = [t \in CacheThreads |-> NoCacheCall]

\* The application after TranslateApp::new.
Init ==
    /\ stResp = [c \in Calls |-> NoResponse]
    /\ stPc = [c \in Calls |-> "idle"]
    /\ StreamIdle
    /\ PipelineIdle
    /\ enable_keyword_analysis \in Flags
    /\ \E loaded \in LoadedCaches :
        /\ cache = loaded
        /\ cache_file = IF loaded = EmptyMap THEN NoFile ELSE SavedFile(loaded)
        /\ setBy = [k \in DOMAIN loaded |->
                       Triple(<<"h">>, <<"z", "h">>,
                              k = generate_key(<<"h">>, <<"z", "h">>, TRUE))]
        /\ fileBy = setBy

Next ==
    \/ StartTranslation
    \/ CancelTranslation
    \/ ProcessMessages
    \/ \E c \in Calls :
        \/ FwdStart(c)
        \/ FwdRecv(c)
        \/ FwdTimer(c)
        \/ TrStart(c)
        \/ TrRecv(c)
        \/ TrFinish(c)
        \/ StreamRequest(c)
        \/ StreamRead(c)
        \/ StreamReadErr(c)
        \/ StreamEnd(c)

Spec == Init /\ [][Next]_vars

\* The steps of the forwarding task, of the translator task and of the
\* stream_chat task of a call.
Forwarding(c) == FwdStart(c) \/ FwdRecv(c) \/ FwdTimer(c)

Translating(c) == TrStart(c) \/ TrRecv(c) \/ TrFinish(c)

Streaming(c) ==
    StreamRequest(c) \/ StreamRead(c) \/ StreamReadErr(c) \/ StreamEnd(c)

\* The tokio runtime keeps running the forwarding and translator tasks: as
\* long as one of them can take a step (a value is ready to be received, a
\* sleep that was started completes), a step is taken.  Nothing is assumed
\* of the network, which may stall for ever, nor of the user.
FwdFair == WF_vars(\E c \in Calls : Forwarding(c) \/ Translating(c))

SpecFwdLive == Spec /\ FwdFair

\* The application with every task running, a network stream that
\* eventually ends or fails, and a UI that keeps drawing frames (update
\* calls process_messages at each frame): as long as a task or the UI can
\* take a step, a step is taken.  Nothing is assumed of the user's clicks.
TaskFair ==
    WF_vars(\/ \E c \in Calls : Forwarding(c) \/ Translating(c) \/ Streaming(c)
            \/ ProcessMessages)

SpecLive == Spec /\ TaskFair

\* The application with the clicks on Translate that come while a translation
\* is running (they change nothing but the history, and Spec leaves them
\* out): first start, no cache file, keyword analysis off.
InitUi ==
    /\ stResp = [c \in Calls |-> NoResponse]
    /\ stPc = [c \in Calls |-> "idle"]
    /\ StreamIdle
    /\ PipelineIdle
    /\ enable_keyword_analysis = FALSE
    /\ cache = EmptyMap
    /\ cache_file = NoFile
    /\ setBy = EmptyMap
    /\ fileBy = EmptyMap

NextUi == Next \/ StartRefused

SpecUi == InitUi /\ [][NextUi]_vars

\* The application with translations started one after the other: a new one
\* can be started as soon as the UI has processed the terminal message of
\* the one before.
NextRestart ==
    \/ StartOrRestart
    \/ CancelTranslation
    \/ ProcessMessages
    \/ \E c \in Calls : Forwarding(c) \/ Translating(c) \/ Streaming(c)

SpecRestart == InitUi /\ [][NextRestart]_vars

\* stream_chat on its own: one invocation, any response, any division of the
\* body into reads; nothing receives from the channel.
InitStream ==
    /\ \E resp \in StreamResponses :
        stResp = [c \in Calls |-> IF c = 1 THEN resp ELSE NoResponse]
    /\ stPc = [c \in Calls |-> IF c = 1 THEN "send" ELSE "idle"]
    /\ StreamIdle
    /\ PipelineIdle
    /\ enable_keyword_analysis = FALSE
    /\ cache = EmptyMap
    /\ cache_file = NoFile
    /\ setBy = EmptyMap
    /\ fileBy = EmptyMap

NextStream ==
    \E c \in Calls :
        \/ StreamRequest(c)
        \/ StreamRead(c)
        \/ StreamReadErr(c)
        \/ StreamEnd(c)

SpecStream == InitStream /\ [][NextStream]_vars

\* TranslationCache on its own, called directly and one call at a time: set,
\* get and clear with arguments from small sets, and restarts of the
\* application on the same cache file.  The texts and languages include
\* ones that contain "::".  The file system takes every write of the cache
\* file here (a removal of the file may fail).
CacheRequests ==
    {Triple(<<"x">>, <<"a">>, FALSE),
     Triple(<<"f", "a", "l", "s", "e", ":", ":", "x">>, <<"a">>, FALSE),
     Triple(<<"x">>, <<"a">>, TRUE),
     Triple(<<"f", "a", "l", "s", "e", ":", ":", "x">>, <<"a">>, TRUE),
     Triple(<<"x">>, <<"a", ":", ":", "t", "r", "u", "e">>, FALSE)}
CacheValues ==
    {[translation |-> <<"a">>, keyword_analysis |-> None],
     [translation |-> <<"b">>, keyword_analysis |-> Some(<<"k">>)]}

InitCache ==
    /\ stResp = [c \in Calls |-> NoResponse]
    /\ stPc = [c \in Calls |-> "idle"]
    /\ StreamIdle
    /\ PipelineIdle
    /\ enable_keyword_analysis = FALSE
    /\ cache = EmptyMap
    /\ cache_file = NoFile
    /\ setBy = EmptyMap
    /\ fileBy = EmptyMap

DoSet ==
    /\ \E r \in CacheRequests, v \in CacheValues :
          CacheSet(r.text, r.lang, r.flag, v.translation, v.keyword_analysis,
                   MaxEntries, CleanupBatch, clock .. MaxTime, {TRUE})
    /\ UNCHANGED <<ttsVars, audioVars, streamVars, transVars, fwdVars, uiVars, cacheWrites,
                   cache_call>>

DoGet ==
    /\ \E r \in CacheRequests : CacheLookup(r.text, r.lang, r.flag)
    /\ UNCHANGED <<ttsVars, audioVars, streamVars, transVars, fwdVars, uiVars, cacheWrites,
                   cache_call>>

DoClear ==
    /\ CacheClear
    /\ UNCHANGED <<ttsVars, audioVars, streamVars, transVars, fwdVars, uiVars, cacheWrites,
                   cache_call>>

DoNew ==
    /\ CacheNew
    /\ UNCHANGED <<ttsVars, audioVars, streamVars, transVars, fwdVars, uiVars, cacheWrites,
                   cache_call>>

NextCache == DoSet \/ DoGet \/ DoClear \/ DoNew

SpecCache == InitCache /\ [][NextCache]_vars

\* ------------------------------------- TranslationCache, two threads
\* The histories of the sequential calls (cacheOp, setBy, fileBy) are not
\* kept here.
notCacheCalls ==
    <<ttsVars, audioVars, streamVars, transVars, fwdVars, uiVars, clock, cacheWrites, cacheOp,
      setBy, fileBy>>

\* A call of thread t begins: it overlaps the calls that are under way.
CallBegins(t, pc) ==
    [u \in CacheThreads |->
        IF u = t THEN [pc |-> pc, overlap |-> \E w \in CacheThreads \ {t} :
                                                  cache_call[w].pc # "idle"]
        ELSE IF cache_call[u].pc # "idle" THEN [cache_call[u] EXCEPT !.overlap = TRUE]
        ELSE cache_call[u]]

\* set, the block that holds the guard of the map: insert and, over the
\* limit, removal of the oldest entries; the guard is dropped at the end of
\* the block.
SetBlock(t, r, v) ==
    /\ cache_call[t].pc = "idle"
    /\ cache' \in CacheSetWith(cache, generate_key(r.text, r.lang, r.flag),
                               CacheEntry(v.translation, v.keyword_analysis, clock),
                               MaxEntries, CleanupBatch)
    /\ cache_call' = CallBegins(t, "save")
    /\ UNCHANGED <<cache_file, notCacheCalls>>

\* Variant: save_to_file writes the file only when there is none.
SaveToFileOnce(t) ==
    /\ cache_call[t].pc = "save"
    /\ cache_file' = IF cache_file.exists THEN cache_file ELSE SavedFile(cache)
    /\ cache_call' = [cache_call EXCEPT ![t].pc = "idle"]
    /\ UNCHANGED <<cache, notCacheCalls>>

\* set, its call of save_to_file: the map is locked again, serialized and
\* written with the guard held; then set returns.
SaveToFile(t) ==
    /\ cache_call[t].pc = "save"
    /\ cache_file' = SavedFile(cache)
    /\ cache_call' = [cache_call EXCEPT ![t].pc = "idle"]
    /\ UNCHANGED <<cache, notCacheCalls>>

\* clear: the map is emptied and the file removed, all with the guard held.
ClearLocked(t) ==
    /\ cache_call[t].pc = "idle"
    /\ cache' = EmptyMap
    /\ cache_file' = NoFile
    /\ cache_call' = CallBegins(t, "idle")
    /\ UNCHANGED notCacheCalls

ConcRequests ==
    {Triple(<<"x">>, <<"a">>, FALSE), Triple(<<"x">>, <<"a">>, TRUE),
     Triple(<<"y">>, <<"a">>, FALSE)}

NextCacheConc ==
    \E t \in CacheThreads :
        \/ \E r \in ConcRequests, v \in CacheValues : SetBlock(t, r, v)
        \/ SaveToFile(t)
        \/ ClearLocked(t)

SpecCacheConc == InitCache /\ [][NextCacheConc]_vars

\* parse_translation_and_keywords as the translator task applies it: the
\* first translation of a run, whose response text the server sent as one
\* chunk followed by [DONE]; the forwarding task has passed it on and the
\* UI has shown it, and the translator task is about to see its channel
\* closed.  The response texts are put together from the two section
\* markers, a blank and a letter.
ParseTokens == {TranslationMarker, TerminologyMarker, <<" ">>, <<"a">>}

RECURSIVE Concat(_)
Concat(seqs) == IF seqs = <<>> THEN <<>> ELSE Head(seqs) \o Concat(Tail(seqs))

ParseResponses == {Concat(ts) : ts \in SeqsUpTo(ParseTokens, MaxTokens)} \ {<<>>}

First(c, x, idle) == IF c = 1 THEN x ELSE idle

InitParse ==
    \E response \in ParseResponses, flag \in Flags :
        LET resp == OkResponse(<<DeltaPayload(response)>>, <<LF>>, TRUE, FALSE, "body")
            sent == <<Ok(response), Ok(<<>>)>>
            request == Triple(<<"h">>, <<"z", "h">>, flag)
        IN  /\ stResp = [c \in Calls |-> First(c, resp, NoResponse)]
            /\ stPc = [c \in Calls |-> First(c, "done", "idle")]
            /\ stPos = [c \in Calls |-> First(c, Len(resp.body), 0)]
            /\ buffer = [c \in Calls |-> <<>>]
            /\ stQ = [c \in Calls |-> <<>>]
            /\ stHist = [c \in Calls |-> First(c, sent, <<>>)]
            /\ stTerm = [c \in Calls |-> First(c, 1, 0)]
            /\ stAligned = [c \in Calls |-> TRUE]
            /\ stReads = [c \in Calls |-> First(c, 1, 0)]
            /\ trPc = [c \in Calls |-> First(c, "recv", "idle")]
            /\ full_response = [c \in Calls |-> First(c, response, <<>>)]
            /\ txQ = [c \in Calls |-> <<>>]
            /\ txHist = [c \in Calls |-> First(c, sent, <<>>)]
            /\ req = [c \in Calls |-> First(c, request, NoRequest)]
            /\ fwPc = [c \in Calls |-> First(c, "done", "idle")]
            /\ armed = [c \in Calls |-> FALSE]
            /\ uiHist = [c \in Calls |->
                   First(c, <<UpdateTranslation(response), TranslationComplete>>, <<>>)]
            /\ found = [c \in Calls |-> First(c, Some(None), None)]
            /\ calls = 1
            /\ is_translating = FALSE
            /\ cancel_requested = FALSE
            /\ display_translation = response
            /\ display_error = None
            /\ uiQ = <<>>
            /\ enable_keyword_analysis = flag
            /\ cancelEarly = [c \in Calls |-> FALSE]
            /\ refused = FALSE
            /\ cache = EmptyMap
            /\ cache_file = NoFile
            /\ clock = 0
            /\ cacheWrites = {}
            /\ cache_call = [t \in CacheThreads |-> NoCacheCall]
            /\ cacheOp = [NoOp EXCEPT !.op = "get", !.text = request.text,
                                      !.lang = request.lang, !.flag = flag,
                                      !.key = generate_key(request.text, request.lang, flag)]
            /\ setBy = EmptyMap
            /\ fileBy = EmptyMap
            /\ AudioIdle
            /\ TtsIdle

NextParse == \E c \in Calls : TrFinish(c)

SpecParse == InitParse /\ [][NextParse]_vars

\* ----------------------------------------------------- calls on AudioCache
\* Everything but the AudioCache and the system clock.
notAudio ==
    <<streamVars, transVars, fwdVars, uiVars, cache, cache_file, cacheWrites,
      cacheOp, setBy, fileBy, cache_call, ttsVars>>

\* The TTS service writes the audio file of a conversion.
AudioFileWritten(path) ==
    /\ path \notin audio_files
    /\ audio_files' = audio_files \cup {path}
    /\ UNCHANGED <<audio_cache, index_file, audio_mutex, audio_poisoned, audio_call,
                   audio_stored, audio_cached, clock, notAudio>>

\* An audio file is deleted by something other than the cache.
AudioFileDeleted(path) ==
    /\ path \in audio_files
    /\ audio_files' = audio_files \ {path}
    /\ audio_stored' = StoredWithout(audio_stored, {path})
    /\ audio_cached' = audio_cached \ {path}
    /\ UNCHANGED <<audio_cache, index_file, audio_mutex, audio_poisoned, audio_call,
                   clock, notAudio>>

\* AudioCache::set up to its lock: return at once when the audio file does
\* not exist, else build the entry with the current time (times: the
\* seconds the clock can show at the call).
AudioSetCall(t, text, audio_path, times) ==
    /\ audio_call[t].pc = "idle"
    /\ \E now \in times :
        /\ clock' = now
        /\ audio_call' = [audio_call EXCEPT ![t] =
              IF audio_path \notin audio_files
              THEN [NoAudioCall EXCEPT !.outcome = "skipped"]
              ELSE [NoAudioCall EXCEPT !.pc = "set_lock", !.text = text,
                                       !.audio_path = audio_path,
                                       !.entry = Some(AudioCacheEntry(audio_path, now))]]
    /\ UNCHANGED <<audio_cache, audio_files, index_file, audio_mutex, audio_poisoned,
                   audio_stored, audio_cached, notAudio>>

\* lock_mutex!: expect() on a poisoned Mutex panics.
AudioLockPanics(t, at) ==
    /\ audio_call[t].pc = at
    /\ audio_mutex = NoThread
    /\ audio_poisoned
    /\ audio_call' = [audio_call EXCEPT ![t].pc = "panicked", ![t].outcome = "panicked"]
    /\ UNCHANGED <<audio_cache, audio_files, index_file, audio_mutex, audio_poisoned,
                   audio_stored, audio_cached, clock, notAudio>>

\* Variant: the file of an entry that is overwritten is never deleted.
OldPathsKept(m, key, audio_path) == {}

\* The file set deletes before its insert: that of the entry the key has,
\* when its path is not the new one.
OldPaths(m, key, audio_path) ==
    IF key \in DOMAIN m /\ m[key].audio_path # audio_path
    THEN {m[key].audio_path} ELSE {}

\* The block of set that holds the guard: delete the old file when the key
\* is present with another path, insert, and when the map is over
\* max_entries run cleanup_oldest_entries up to its call of
\* save_cache_index.  Without a cleanup the guard is dropped at the end of
\* the block; with one it is still alive when save_cache_index is called.
\* The results of remove_file are ignored.
AudioSetLocked(t, removals) ==
    LET call == audio_call[t]
        key == AudioKey(call.text)
        entry == call.entry[1]
        old_paths == OldPaths(audio_cache, key, call.audio_path)
        inserted == MapInsert(audio_cache, key, entry)
        over == Cardinality(DOMAIN inserted) > AudioMaxEntries
    IN  /\ call.pc = "set_lock"
        /\ audio_mutex = NoThread
        /\ ~audio_poisoned
        /\ \E victims \in (IF over THEN OldestSets(inserted, AudioCleanupSize) ELSE {{}}) :
            LET doomed == (old_paths \cup {inserted[k].audio_path : k \in victims})
                              \cap audio_files
            IN  \E stay \in FailSets(doomed, removals) :
                  LET gone == doomed \ stay
                  IN  /\ audio_cache' = [k \in DOMAIN inserted \ victims |-> inserted[k]]
                      /\ audio_files' = audio_files \ gone
                      /\ audio_stored' = StoredWithout(audio_stored, gone)
                      /\ audio_cached' = (audio_cached \cup {call.audio_path}) \ gone
                      /\ audio_mutex' = IF over THEN t ELSE NoThread
                      /\ audio_call' = [audio_call EXCEPT
                             ![t].pc = IF over THEN "cleanup_save" ELSE "save_lock",
                             ![t].over = over,
                             ![t].evicted = victims,
                             ![t].referenced = doomed]
        /\ UNCHANGED <<index_file, audio_poisoned, clock, notAudio>>

\* save_cache_index called from cleanup_oldest_entries: lock() on the Mutex
\* whose guard the calling set still holds.  std::sync::Mutex::lock does not
\* return then: the thread blocks for ever with the Mutex held, or it
\* panics, and the guard dropped by the unwinding poisons the Mutex.
AudioSaveRelock(t) ==
    /\ audio_call[t].pc = "cleanup_save"
    /\ audio_mutex = t
    /\ \/ /\ audio_call' = [audio_call EXCEPT ![t].pc = "blocked",
                                              ![t].outcome = "blocked"]
          /\ UNCHANGED <<audio_mutex, audio_poisoned>>
       \/ /\ audio_call' = [audio_call EXCEPT ![t].pc = "panicked",
                                              ![t].outcome = "panicked"]
          /\ audio_mutex' = NoThread
          /\ audio_poisoned' = TRUE
    /\ UNCHANGED <<audio_cache, audio_files, index_file, audio_stored, audio_cached,
                   clock, notAudio>>

\* save_cache_index called at the end of set: lock, collect the index
\* entries, drop the guard.
AudioSaveLock(t) ==
    /\ audio_call[t].pc = "save_lock"
    /\ audio_mutex = NoThread
    /\ ~audio_poisoned
    /\ audio_call' = [audio_call EXCEPT ![t].pc = "save_write",
                          ![t].index_entries = IndexEntries(audio_cache)]
    /\ UNCHANGED <<audio_cache, audio_files, index_file, audio_mutex, audio_poisoned,
                   audio_stored, audio_cached, clock, notAudio>>

\* save_cache_index: serialize and write the index file (a failed write is
\* logged and nothing else; writes: the outcomes the file system can give),
\* then set returns.
AudioSaveWrite(t, writes) ==
    LET call == audio_call[t]
    IN  /\ call.pc = "save_write"
        /\ \E written \in writes :
            index_file' = IF written
                          THEN [exists |-> TRUE, content |-> call.index_entries]
                          ELSE index_file
        /\ audio_call' = [audio_call EXCEPT ![t] =
                              [NoAudioCall EXCEPT !.over = call.over,
                                                  !.outcome = "stored"]]
        /\ audio_stored' =
              IF call.audio_path \in audio_files
              THEN MapInsert(audio_stored, call.text, call.audio_path)
              ELSE [x \in DOMAIN audio_stored \ {call.text} |-> audio_stored[x]]
        /\ UNCHANGED <<audio_cache, audio_files, audio_mutex, audio_poisoned,
                       audio_cached, clock, notAudio>>

\* AudioCache::get up to its lock.
AudioGetCall(t, text) ==
    /\ audio_call[t].pc = "idle"
    /\ audio_call' = [audio_call EXCEPT ![t] =
                          [NoAudioCall EXCEPT !.pc = "get_lock", !.text = text]]
    /\ UNCHANGED <<audio_cache, audio_files, index_file, audio_mutex, audio_poisoned,
                   audio_stored, audio_cached, clock, notAudio>>

\* Variant: get returns the path of the entry without looking for the file.
AudioGetAny(m, files, text) ==
    IF AudioKey(text) \in DOMAIN m THEN Some(m[AudioKey(text)].audio_path) ELSE None

\* What get returns under the lock: the path of the entry of the text when
\* there is one and its file exists.
AudioGet(m, files, text) ==
    IF AudioKey(text) \in DOMAIN m /\ m[AudioKey(text)].audio_path \in files
    THEN Some(m[AudioKey(text)].audio_path)
    ELSE None

\* The path of the entry get finds for the text, if it finds one.
EntryPaths(m, text) ==
    IF AudioKey(text) \in DOMAIN m THEN {m[AudioKey(text)].audio_path} ELSE {}

\* AudioCache::get from its lock to its return.
AudioGetLocked(t) ==
    /\ audio_call[t].pc = "get_lock"
    /\ audio_mutex = NoThread
    /\ ~audio_poisoned
    /\ audio_call' = [audio_call EXCEPT
           ![t].pc = "idle", ![t].outcome = "got",
           ![t].referenced = EntryPaths(audio_cache, audio_call[t].text),
           ![t].result = AudioGet(audio_cache, audio_files, audio_call[t].text)]
    /\ UNCHANGED <<audio_cache, audio_files, index_file, audio_mutex, audio_poisoned,
                   audio_stored, audio_cached, clock, notAudio>>

\* AudioCache::clear up to its first lock.
AudioClearCall(t) ==
    /\ audio_call[t].pc = "idle"
    /\ audio_call' = [audio_call EXCEPT ![t] = [NoAudioCall EXCEPT !.pc = "clear_lock"]]
    /\ UNCHANGED <<audio_cache, audio_files, index_file, audio_mutex, audio_poisoned,
                   audio_stored, audio_cached, clock, notAudio>>

\* clear under its first guard: the file of every entry is removed when it
\* exists (a failure is logged), then the guard is dropped.
AudioClearLocked(t, removals) ==
    LET doomed == MapPaths(audio_cache) \cap audio_files
    IN  /\ audio_call[t].pc = "clear_lock"
        /\ audio_mutex = NoThread
        /\ ~audio_poisoned
        /\ \E stay \in FailSets(doomed, removals) :
            /\ audio_files' = audio_files \ (doomed \ stay)
            /\ audio_stored' = EmptyMap
            /\ audio_cached' = {}
            /\ audio_call' = [audio_call EXCEPT
                   ![t].pc = "clear_again",
                   ![t].referenced = MapPaths(audio_cache),
                   ![t].failed = (stay # {})]
        /\ UNCHANGED <<audio_cache, index_file, audio_mutex, audio_poisoned, clock,
                       notAudio>>

\* Variant: the second lock of clear is taken and the map is left as it is.
AudioClearAgainKeepsMap(t, removals) ==
    /\ audio_call[t].pc = "clear_again"
    /\ audio_mutex = NoThread
    /\ ~audio_poisoned
    /\ index_file' = NoIndexFile
    /\ audio_call' = [audio_call EXCEPT ![t] =
           [NoAudioCall EXCEPT !.outcome = "cleared",
                               !.referenced = audio_call[t].referenced,
                               !.failed = audio_call[t].failed]]
    /\ UNCHANGED <<audio_cache, audio_files, audio_mutex, audio_poisoned, audio_stored,
                   audio_cached, clock, notAudio>>

\* clear from its second lock: the map is emptied, the index file removed
\* (a failure is logged), and clear returns.
AudioClearAgain(t, removals) ==
    /\ audio_call[t].pc = "clear_again"
    /\ audio_mutex = NoThread
    /\ ~audio_poisoned
    /\ audio_cache' = EmptyMap
    /\ \E stay \in FailSets(IF index_file.exists THEN {"index"} ELSE {}, removals) :
        /\ index_file' = IF stay = {} THEN NoIndexFile ELSE index_file
        /\ audio_call' = [audio_call EXCEPT ![t] =
               [NoAudioCall EXCEPT !.outcome = "cleared",
                                   !.referenced = audio_call[t].referenced,
                                   !.failed = (audio_call[t].failed \/ stay # {})]]
    /\ UNCHANGED <<audio_files, audio_mutex, audio_poisoned, audio_stored,
                   audio_cached, clock, notAudio>>

\* The application is started again: AudioCache::new on the same directory;
\* the threads of the run before are gone.
AudioNew ==
    /\ audio_cache' = AudioLoad(index_file, audio_files)
    /\ audio_mutex' = NoThread
    /\ audio_poisoned' = FALSE
    /\ audio_call' = [t \in AudioThreads |->
           IF t = UiThread THEN [NoAudioCall EXCEPT !.outcome = "new"] ELSE NoAudioCall]
    /\ audio_stored' = EmptyMap
    /\ audio_cached' = MapPaths(audio_cache')
    /\ UNCHANGED <<audio_files, index_file, clock, notAudio>>

\* AudioCache on its own, as the TTS conversions use it: sets from two
\* threads, with texts enough to go over the limit; the path of a set is the
\* one get_new_audio_path gave for the text (app.rs:262, 310), and the
\* removals of files succeed.
AudioLetters == <<"s", "t", "u", "v", "w">>
AudioTexts == {<<AudioLetters[i]>> : i \in 1 .. AudioMaxEntries + 1}
AudioPaths == {NewAudioPath(text) : text \in AudioTexts}

InitAudio ==
    /\ stResp = [c \in Calls |-> NoResponse]
    /\ stPc = [c \in Calls |-> "idle"]
    /\ StreamIdle
    /\ PipelineIdle
    /\ enable_keyword_analysis = FALSE
    /\ cache = EmptyMap
    /\ cache_file = NoFile
    /\ setBy = EmptyMap
    /\ fileBy = EmptyMap

NextAudio ==
    \/ \E path \in AudioPaths : AudioFileWritten(path)
    \/ \E t \in TtsThreads :
        \/ \E text \in AudioTexts : AudioSetCall(t, text, NewAudioPath(text), clock .. MaxTime)
        \/ AudioLockPanics(t, "set_lock")
        \/ AudioLockPanics(t, "save_lock")
        \/ AudioSetLocked(t, {TRUE})
        \/ AudioSaveRelock(t)
        \/ AudioSaveLock(t)
        \/ AudioSaveWrite(t, BOOLEAN)

SpecAudio == InitAudio /\ [][NextAudio]_vars

\* The same two threads with an index file that can always be written.
NextAudioWritten ==
    \/ \E path \in AudioPaths : AudioFileWritten(path)
    \/ \E t \in TtsThreads :
        \/ \E text \in AudioTexts : AudioSetCall(t, text, NewAudioPath(text), {clock})
        \/ AudioLockPanics(t, "set_lock")
        \/ AudioLockPanics(t, "save_lock")
        \/ AudioSetLocked(t, {TRUE})
        \/ AudioSaveRelock(t)
        \/ AudioSaveLock(t)
        \/ AudioSaveWrite(t, {TRUE})

SpecAudioWritten == InitAudio /\ [][NextAudioWritten]_vars

\* AudioCache called one call at a time: set from a TTS thread, with the
\* path get_new_audio_path gives for the text or (for the first text) with
\* another path, get and clear from the UI thread, files written by the TTS
\* service and deleted from outside, removals by the cache that may fail,
\* and restarts of the application.
OtherPath == <<"o", ".wav">>
SeqPaths == AudioPaths \cup {OtherPath}
SeqThread == "tts_thread_1"
FirstText == <<AudioLetters[1]>>

\* No call on the cache is under way (a thread that is blocked or has
\* panicked never comes back).
Quiet == \A t \in AudioThreads : audio_call[t].pc \in {"idle", "blocked", "panicked"}

SeqWritten == Quiet /\ \E path \in SeqPaths : AudioFileWritten(path)

SeqDeleted == Quiet /\ \E path \in SeqPaths : AudioFileDeleted(path)

SeqNew == Quiet /\ AudioNew

SeqGet == Quiet /\ AudioGetCall(UiThread, FirstText)

SeqClear == Quiet /\ AudioClearCall(UiThread)

SeqSet ==
    /\ Quiet
    /\ \E text \in AudioTexts :
          \E path \in {NewAudioPath(text)} \cup (IF text = FirstText THEN {OtherPath} ELSE {}) :
             AudioSetCall(SeqThread, text, path, {clock})

NextAudioSeq ==
    \/ SeqWritten
    \/ SeqDeleted
    \/ SeqNew
    \/ SeqGet
    \/ SeqClear
    \/ SeqSet
    \/ AudioGetLocked(UiThread)
    \/ AudioClearLocked(UiThread, BOOLEAN)
    \/ AudioClearAgain(UiThread, BOOLEAN)
    \/ \E at \in {"get_lock", "clear_lock"} : AudioLockPanics(UiThread, at)
    \/ AudioLockPanics(SeqThread, "set_lock")
    \/ AudioSetLocked(SeqThread, {TRUE})
    \/ AudioSaveRelock(SeqThread)
    \/ AudioSaveLock(SeqThread)
    \/ AudioSaveWrite(SeqThread, {TRUE})

SpecAudioSeq == InitAudio /\ [][NextAudioSeq]_vars

\* The UI thread clears the audio cache (clear_audio_cache) while the
\* thread of a TTS conversion stores its audio; files can always be removed
\* and the index file written.
NextAudioClear ==
    \/ \E path \in AudioPaths : AudioFileWritten(path)
    \/ \E text \in AudioTexts :
          AudioSetCall(SeqThread, text, NewAudioPath(text), {clock})
    \/ AudioLockPanics(SeqThread, "set_lock")
    \/ AudioLockPanics(SeqThread, "save_lock")
    \/ AudioSetLocked(SeqThread, {TRUE})
    \/ AudioSaveRelock(SeqThread)
    \/ AudioSaveLock(SeqThread)
    \/ AudioSaveWrite(SeqThread, {TRUE})
    \/ AudioClearCall(UiThread)
    \/ AudioLockPanics(UiThread, "clear_lock")
    \/ AudioLockPanics(UiThread, "clear_again")
    \/ AudioClearLocked(UiThread, {TRUE})
    \/ AudioClearAgain(UiThread, {TRUE})

SpecAudioClear == InitAudio /\ [][NextAudioClear]_vars

\* ------------------------------------------------------ TTS conversions
\* Everything the UI thread and the conversions leave alone.
notTts ==
    <<streamVars, transVars, fwdVars, cacheVars, calls, is_translating, cancel_requested,
      display_translation, display_error, enable_keyword_analysis, cancelEarly, refused>>

\* start_tts (the Convert button is shown while the display does not show
\* a conversion of the type under way) when the audio of the text is in
\* the cache: the display gets the cached path, nothing is converted.
StartTtsCached(k, text) ==
    /\ ~tts_converting[k]
    /\ audio_mutex = NoThread
    /\ ~audio_poisoned
    /\ AudioGet(audio_cache, audio_files, text) # None
    /\ tts_audio_path' =
          [tts_audio_path EXCEPT ![k] = AudioGet(audio_cache, audio_files, text)]
    /\ UNCHANGED <<tts_cancel_requested, tts_converting, tts_task, uiQ, audioVars, notTts>>

\* start_tts when the audio is not cached: reset the cancel flag of the
\* type, mark the conversion under way, send the start message and spawn
\* the task (t: the thread convert_async will run the conversion on).
StartTts(k, text, t) ==
    /\ ~tts_converting[k]
    /\ audio_mutex = NoThread
    /\ ~audio_poisoned
    /\ AudioGet(audio_cache, audio_files, text) = None
    /\ tts_task[t].pc = "idle"
    /\ tts_cancel_requested' = [tts_cancel_requested EXCEPT ![k] = FALSE]
    /\ tts_converting' = [tts_converting EXCEPT ![k] = TRUE]
    /\ uiQ' = Append(uiQ, TtsStarted(k))
    /\ tts_task' = [tts_task EXCEPT ![t] =
           [NoTtsTask EXCEPT !.pc = "spawned", !.tts_type = k, !.text = text,
                             !.audio_path = NewAudioPath(text)]]
    /\ UNCHANGED <<tts_audio_path, audioVars, notTts>>

\* cancel_tts with the conversion of the type under way
CancelTts(k) ==
    /\ tts_converting[k]
    /\ CancelTtsTypes({k})
    /\ UNCHANGED <<tts_audio_path, uiQ, audioVars, notTts>>

\* The spawned task: "cancelled before start" when the flag is set, else
\* convert_async, which spawns the thread of the conversion.
TtsTaskStart(t) ==
    /\ tts_task[t].pc = "spawned"
    /\ tts_task' = [tts_task EXCEPT ![t].pc =
           IF tts_cancel_requested[tts_task[t].tts_type] THEN "done" ELSE "converting"]
    /\ UNCHANGED <<tts_cancel_requested, tts_converting, tts_audio_path, uiQ, audioVars,
                   notTts>>

\* converter.convert returns: Ok with the audio file written, or an error.
TtsConverted(t, ok) ==
    /\ tts_task[t].pc = "converting"
    /\ tts_task' = [tts_task EXCEPT ![t].pc = "callback", ![t].completed = ok]
    /\ audio_files' = IF ok THEN audio_files \cup {tts_task[t].audio_path} ELSE audio_files
    /\ UNCHANGED <<tts_cancel_requested, tts_converting, tts_audio_path, uiQ, audio_cache,
                   index_file, audio_mutex, audio_poisoned, audio_call, audio_stored,
                   audio_cached, notTts>>

\* The callback: return when the cancel flag of the type is set; on Failed
\* send TtsFailed; on Completed go on to audio_cache.set.
TtsCallback(t) ==
    LET task == tts_task[t]
    IN  /\ task.pc = "callback"
        /\ IF tts_cancel_requested[task.tts_type]
           THEN /\ tts_task' = [tts_task EXCEPT ![t].pc = "done"]
                /\ UNCHANGED uiQ
           ELSE IF task.completed
           THEN /\ tts_task' = [tts_task EXCEPT ![t].pc = "set"]
                /\ UNCHANGED uiQ
           ELSE /\ tts_task' = [tts_task EXCEPT ![t].pc = "done"]
                /\ uiQ' = Append(uiQ, TtsFailed(<<>>))
        /\ UNCHANGED <<tts_cancel_requested, tts_converting, tts_audio_path, audioVars,
                       notTts>>

\* The callback calls audio_cache.set(text, audio_path).
TtsSet(t) ==
    /\ tts_task[t].pc = "set"
    /\ ~tts_task[t].stored
    /\ tts_task' = [tts_task EXCEPT ![t].stored = TRUE]
    /\ audio_call[t].pc = "idle"
    /\ audio_call' = [audio_call EXCEPT ![t] =
          IF tts_task[t].audio_path \notin audio_files
          THEN [NoAudioCall EXCEPT !.outcome = "skipped"]
          ELSE [NoAudioCall EXCEPT !.pc = "set_lock", !.text = tts_task[t].text,
                   !.audio_path = tts_task[t].audio_path,
                   !.entry = Some(AudioCacheEntry(tts_task[t].audio_path, clock))]]
    /\ UNCHANGED <<tts_cancel_requested, tts_converting, tts_audio_path, uiQ, audio_cache,
                   audio_files, index_file, audio_mutex, audio_poisoned, audio_stored,
                   audio_cached, notTts>>

\* After set has returned the callback sends the completion message of its
\* type.
TtsSend(t) ==
    /\ tts_task[t].pc = "set"
    /\ tts_task[t].stored
    /\ audio_call[t].pc = "idle"
    /\ tts_task' = [tts_task EXCEPT ![t].pc = "done", ![t].sent = TRUE]
    /\ uiQ' = Append(uiQ, TtsCompleted(tts_task[t].tts_type, tts_task[t].audio_path))
    /\ UNCHANGED <<tts_cancel_requested, tts_converting, tts_audio_path, audioVars,
                   notTts>>

\* The UI thread starts and cancels conversions and handles the messages;
\* each conversion runs on its thread.  Files can always be removed and
\* the index file written; the clock stands still.
NextTts ==
    \/ \E k \in TtsTypes, text \in AudioTexts : StartTtsCached(k, text)
    \/ \E k \in TtsTypes, text \in AudioTexts, t \in TtsThreads : StartTts(k, text, t)
    \/ \E k \in TtsTypes : CancelTts(k)
    \/ ProcessMessages
    \/ \E t \in TtsThreads :
          \/ TtsTaskStart(t)
          \/ \E ok \in BOOLEAN : TtsConverted(t, ok)
          \/ TtsCallback(t)
          \/ TtsSet(t)
          \/ AudioSetLocked(t, {TRUE})
          \/ AudioSaveLock(t)
          \/ AudioSaveWrite(t, {TRUE})
          \/ TtsSend(t)

SpecTts == InitAudio /\ [][NextTts]_vars

\* ================================================================ claims
Last(s) == s[Len(s)]
IsPrefix(s, t) == Len(s) <= Len(t) /\ SubSeq(t, 1, Len(s)) = s

\* The delta.content fragments of a list of frames, read off the payloads as
\* the server wrote them.
RECURSIVE Fragments(_)
Fragments(frames) ==
    IF frames = <<>> THEN <<>>
    ELSE LET f == Head(frames)
         IN  (IF f \in ValidPayloads /\ f # NoContentPayload
              THEN <<Ok(SubSeq(f, 3, Len(f) - 2))>>
              ELSE <<>>) \o Fragments(Tail(frames))

AllValid(frames) == \A i \in 1 .. Len(frames) : frames[i] \in ValidPayloads

\* The stream task of call c has finished and the transport raised no error.
StreamCompleted(c) ==
    /\ stPc[c] = "done"
    /\ stResp[c].kind = "ok"
    /\ Last(stHist[c]).ok

\* C1: a body of valid data: frames that ends in data: [DONE], delivered in
\* reads that each end at a line break, makes stream_chat emit exactly the
\* delta.content fragments of the frames, in frame order, and then exactly
\* one empty string; while the body is being read the emitted values are a
\* prefix of that sequence.
C1_StreamParsing ==
    \A c \in Calls :
        (stResp[c].kind = "ok" /\ stResp[c].done /\ AllValid(stResp[c].frames)
         /\ stAligned[c])
        => LET expected == Fragments(stResp[c].frames) \o <<Ok(<<>>)>>
           IN  /\ StreamCompleted(c) => stHist[c] = expected
               /\ (stHist[c] # <<>> /\ Last(stHist[c]).ok)
                      => IsPrefix(stHist[c], expected)

C1_Witness ==
    \E c \in Calls :
        /\ StreamCompleted(c) /\ stResp[c].done /\ stAligned[c]
        /\ stReads[c] >= 2
        /\ Len(stResp[c].frames) = 2
        /\ stHist[c] = <<Ok(<<"a">>), Ok(<<"b">>), Ok(<<>>)>>

\* What stream_chat emits when the whole body arrives in one read.
OneRead(body) ==
    LET r == ProcessRead(<<>>, body)
    IN  IF r.done THEN r.out ELSE Append(r.out, Ok(<<>>))

\* C2: however the body is divided into reads, the values emitted are those
\* emitted when the body arrives in one read.
C2_NoLossAcrossReads ==
    \A c \in Calls :
        StreamCompleted(c) => stHist[c] = OneRead(stResp[c].body)

\* C6: every stream_chat invocation sends exactly one terminal value (an
\* empty string after [DONE] or at the end of the body, or an error): a
\* running task has sent none, a finished task has sent one, it is the last
\* value on the channel, and an error occurs nowhere else.
C6_OneTerminal ==
    \A c \in Calls :
        /\ stTerm[c] = (IF stPc[c] = "done" THEN 1 ELSE 0)
        /\ stPc[c] = "done" =>
              /\ stHist[c] # <<>>
              /\ IsEmptyOk(Last(stHist[c])) \/ ~Last(stHist[c]).ok
        /\ \A i \in 1 .. Len(stHist[c]) :
              ~stHist[c][i].ok => (i = Len(stHist[c]) /\ stPc[c] = "done")

C6_Witness ==
    \E c \in Calls :
        /\ stPc[c] = "done" /\ stResp[c].kind = "ok" /\ ~stResp[c].done
        /\ Len(stHist[c]) = 3 /\ stReads[c] >= 2
        /\ IsEmptyOk(Last(stHist[c]))

ExactlyOneBad(frames) ==
    Cardinality({i \in 1 .. Len(frames) : frames[i] = BadPayload}) = 1

\* C7: a data: line that is no JSON does not end the stream: every valid
\* frame before and after it is emitted, in order, and the terminal value
\* follows.
C7_MalformedSkipped ==
    \A c \in Calls :
        (StreamCompleted(c) /\ ExactlyOneBad(stResp[c].frames))
        => stHist[c] = Fragments(stResp[c].frames) \o <<Ok(<<>>)>>

\* C8: on a non-success status exactly one ApiError is sent and nothing
\* else: the body is never read.
C8_ApiErrorOnly ==
    \A c \in Calls :
        stResp[c].kind = "status" =>
            /\ stPc[c] \in {"send", "done"}
            /\ stHist[c] = (IF stPc[c] = "done" THEN <<Err("ApiError")>> ELSE <<>>)
            /\ stReads[c] = 0

C8_Witness ==
    \E c \in Calls :
        /\ stResp[c].kind = "status" /\ stPc[c] = "done"
        /\ stHist[c] = <<Err("ApiError")>>


\* ---------------------------------------------------- pipeline claims
HasMsg(c, type) == \E i \in 1 .. Len(uiHist[c]) : uiHist[c][i].type = type

\* C3: when cancel is requested before the forwarding loop has received the
\* terminal marker, the caller does not receive TranslationComplete.
C3_CancelWins ==
    \A c \in Calls : cancelEarly[c] => ~HasMsg(c, "TranslationComplete")

\* C4: a translation that was cancelled never writes TranslationCache.
C4_NoCacheWriteAfterCancel ==
    \A c \in Calls : HasMsg(c, "TranslationCancelled") => c \notin cacheWrites

\* C5: when the stream yields an error, nothing is cached for that call.
C5_NoCacheWriteAfterError ==
    \A c \in Calls :
        (\E i \in 1 .. Len(stHist[c]) : ~stHist[c][i].ok) => c \notin cacheWrites

\* The texts of the UpdateTranslation messages among msgs, in order.
RECURSIVE UpdateList(_)
UpdateList(msgs) ==
    IF msgs = <<>> THEN <<>>
    ELSE (IF Head(msgs).type = "UpdateTranslation" THEN <<Head(msgs).text>> ELSE <<>>)
         \o UpdateList(Tail(msgs))

\* The text deltas among the values of a channel, in order.
RECURSIVE DeltaList(_)
DeltaList(results) ==
    IF results = <<>> THEN <<>>
    ELSE (IF IsDelta(Head(results)) THEN <<Head(results).val>> ELSE <<>>)
         \o DeltaList(Tail(results))

\* C9: within a call that streams, the translator passes on the values of
\* stream_chat in the order sent, without gap or repetition; the deltas the
\* UI is sent are, one for one and in order, the first values stream_chat
\* emitted; the display of the running call shows those deltas once the UI
\* has taken its messages; and none is dropped: a call that was not
\* cancelled has sent the UI every delta that stream_chat emitted by the
\* time the stream and the forwarding loop are both finished.
C9_DeltasInOrder ==
    \A c \in Calls :
        stResp[c].kind # "none" =>
            LET ups == UpdateList(uiHist[c])
                n == Len(ups)
                got == IF fwPc[c] = "done" /\ ~HasMsg(c, "TranslationCancelled")
                       THEN n + 1 ELSE n
            IN  /\ IsPrefix(txHist[c], stHist[c])
                /\ n <= Len(stHist[c])
                /\ \A i \in 1 .. n : stHist[c][i] = Ok(ups[i]) /\ ups[i] # <<>>
                /\ Len(uiHist[c]) \in {n, n + 1}
                /\ \A i \in 1 .. n : uiHist[c][i].type = "UpdateTranslation"
                /\ fwPc[c] # "done" =>
                       txQ[c] = SubSeq(txHist[c], got + 1, Len(txHist[c]))
                /\ (c = calls /\ uiQ = <<>>) => display_translation = Concat(ups)
                /\ (fwPc[c] = "done" /\ stPc[c] = "done"
                        /\ ~HasMsg(c, "TranslationCancelled"))
                       => ups = DeltaList(stHist[c])

\* C10: the cache is written only after the translator has received and
\* forwarded the terminal marker, with nothing of the call left to forward.
C10_WriteAfterTerminalMarker ==
    \A c \in Calls :
        c \in cacheWrites =>
            /\ \E i \in 1 .. Len(txHist[c]) : IsEmptyOk(txHist[c][i])
            /\ stQ[c] = <<>>

C12_HitReplaysMissRequests ==
    \A c \in Calls :
        IF found[c] = None
        THEN trPc[c] = "idle" /\ stPc[c] = "idle" /\ txHist[c] = <<>>
        ELSE LET hit == found[c][1]
             IN  IF hit # None
                 THEN LET translation == hit[1][1]
                          terminology == hit[1][2]
                      IN  /\ txHist[c] =
                                IF terminology = None
                                THEN <<Ok(translation), Ok(<<>>)>>
                                ELSE <<Ok(translation), Ok(terminology[1]), Ok(<<>>)>>
                          /\ trPc[c] = "done"
                          /\ stPc[c] = "idle"
                          /\ stResp[c] = NoResponse
                          /\ stHist[c] = <<>>
                          /\ c \notin cacheWrites
                 ELSE /\ trPc[c] # "idle"
                      /\ (trPc[c] = "start") = (stPc[c] = "idle")
                      /\ (trPc[c] = "start") = (stResp[c] = NoResponse)
                      /\ IsPrefix(txHist[c], stHist[c])

C12_Witness ==
    \E c \in Calls :
        /\ req[c].flag
        /\ found[c] = Some(Some(<<<<"a">>, Some(<<"k">>)>>))
        /\ txHist[c] = <<Ok(<<"a">>), Ok(<<"k">>), Ok(<<>>)>>
        /\ fwPc[c] = "done"
        /\ stPc[c] = "idle"

\* ------------------------------------------------- TranslationCache claims
\* The map right after the insert of the last set, before any cleanup.
Inserted ==
    MapInsert(cacheOp.before, cacheOp.key,
              CacheEntry(cacheOp.translation, cacheOp.keyword_analysis, clock))

\* The keys the last set removed.
Evicted == DOMAIN Inserted \ DOMAIN cache

\* C13: right after set(text, lang, flag, translation, terminology) has
\* returned, get(text, lang, flag) returns (translation, terminology), also
\* when the set found the map at its size limit.
C13_SetThenGet ==
    cacheOp.op = "set"
        => CacheGet(cache, cacheOp.text, cacheOp.lang, cacheOp.flag)
              = Some(<<cacheOp.translation, cacheOp.keyword_analysis>>)

\* C14: started empty, after any sequence of set, get, clear and restart
\* the map holds at most the limit of entries, in particular right after
\* every set.
C14_SizeBound == Cardinality(DOMAIN cache) <= MaxEntries

C14_Witness ==
    /\ cacheOp.op = "set"
    /\ Cardinality(DOMAIN cacheOp.before) = MaxEntries
    /\ cacheOp.key \notin DOMAIN cacheOp.before

\* C15: a set that pushes the map over the limit removes exactly the
\* cleanup batch, no removed entry is younger than an entry that stays, and
\* the entries that stay are unchanged.
C15_EvictsOldestBatch ==
    (cacheOp.op = "set" /\ Cardinality(DOMAIN Inserted) > MaxEntries)
        => /\ Cardinality(Evicted) = CleanupBatch
           /\ \A r \in Evicted, k \in DOMAIN cache :
                  Inserted[r].timestamp <= cache[k].timestamp
           /\ \A k \in DOMAIN cache : cache[k] = Inserted[k]
           /\ DOMAIN cache \subseteq DOMAIN Inserted

C15_Witness ==
    /\ cacheOp.op = "set"
    /\ Cardinality(DOMAIN Inserted) > MaxEntries
    /\ \E r \in Evicted, k \in DOMAIN cache :
          Inserted[r].timestamp < cache[k].timestamp

\* C17: a set on a key that is present replaces the entry, leaves the
\* number of entries and every other entry as they were, and a get that
\* follows returns the new translation and terminology.
C17_SetReplaces ==
    (cacheOp.op = "set" /\ cacheOp.key \in DOMAIN cacheOp.before)
        => /\ DOMAIN cache = DOMAIN cacheOp.before
           /\ Cardinality(DOMAIN cache) = Cardinality(DOMAIN cacheOp.before)
           /\ cache[cacheOp.key] =
                  CacheEntry(cacheOp.translation, cacheOp.keyword_analysis, clock)
           /\ \A k \in DOMAIN cache \ {cacheOp.key} : cache[k] = cacheOp.before[k]
           /\ CacheGet(cache, cacheOp.text, cacheOp.lang, cacheOp.flag)
                  = Some(<<cacheOp.translation, cacheOp.keyword_analysis>>)

C17_Witness ==
    /\ cacheOp.op = "set"
    /\ cacheOp.key \in DOMAIN cacheOp.before
    /\ cacheOp.before[cacheOp.key].translation # cacheOp.translation
    /\ cacheOp.before[cacheOp.key].keyword_analysis # cacheOp.keyword_analysis
    /\ Cardinality(DOMAIN cache) = MaxEntries

\* The arguments of the last set or get.
LastRequest == Triple(cacheOp.text, cacheOp.lang, cacheOp.flag)

\* C18: the key of a call is the same whenever its arguments are the same,
\* and two calls with the same language and flag that get the same key have
\* the same source text (the call compared with is the set that stored
\* under the key).
C18_KeyInjectiveInText ==
    cacheOp.op \in {"set", "get"}
        => /\ cacheOp.key = generate_key(cacheOp.text, cacheOp.lang, cacheOp.flag)
           /\ \A k \in DOMAIN setBy :
                  (/\ setBy[k].lang = cacheOp.lang
                   /\ setBy[k].flag = cacheOp.flag)
                  => /\ (k = cacheOp.key) => (setBy[k].text = cacheOp.text)
                     /\ (setBy[k].text = cacheOp.text) => (k = cacheOp.key)

C18_Witness ==
    /\ cacheOp.op = "get"
    /\ cacheOp.result = None
    /\ \E k \in DOMAIN cache :
          /\ setBy[k].lang = cacheOp.lang
          /\ setBy[k].flag = cacheOp.flag
          /\ setBy[k].text # cacheOp.text
          /\ k # cacheOp.key

\* C19: two calls with different (text, language, flag) never have the same
\* key, so a get returns only an entry that a set with the same three
\* arguments stored.
C19_KeysDistinct ==
    /\ (cacheOp.op \in {"set", "get"} /\ cacheOp.key \in DOMAIN setBy)
          => setBy[cacheOp.key] = LastRequest
    /\ (cacheOp.op = "get" /\ cacheOp.result # None)
          => setBy[cacheOp.key] = LastRequest

\* C20: when the application is started again right after a set whose file
\* write succeeded, the new cache holds every entry the map held when set
\* returned, and get returns what that set stored.
C20_PersistenceRoundTrip ==
    (cacheOp.op = "new" /\ cacheOp.saved)
        => /\ cache = cacheOp.before
           /\ CacheGet(cache, cacheOp.text, cacheOp.lang, cacheOp.flag)
                  = Some(<<cacheOp.translation, cacheOp.keyword_analysis>>)

Sections(response) ==
    {[mid |-> SubSeq(response, i + Len(TranslationMarker), j - 1),
      post |-> SubSeq(response, j + Len(TerminologyMarker), Len(response))] :
        <<i, j>> \in {p \in (1 .. Len(response)) \X (1 .. Len(response)) :
            /\ StartsWith(SubSeq(response, p[1], Len(response)), TranslationMarker)
            /\ StartsWith(SubSeq(response, p[2], Len(response)), TerminologyMarker)
            /\ p[1] + Len(TranslationMarker) <= p[2]}}

\* C27: when the translator task has parsed a response, then with keyword
\* analysis enabled and both markers present the translation is the trimmed
\* text between [Translation] and [Terminology] and the terminology is the
\* trimmed text after [Terminology] (absent when empty after trimming);
\* with a marker missing or the flag disabled the whole response is the
\* translation and there is no terminology.
C27_SectionSplit ==
    \A c \in Calls :
        (trPc[c] \in {"done", "panicked"} /\ full_response[c] # <<>>) =>
            /\ trPc[c] = "done"
            /\ cacheOp.op = "set"
            /\ IF /\ req[c].flag
                  /\ Contains(full_response[c], TranslationMarker)
                  /\ Contains(full_response[c], TerminologyMarker)
               THEN \E sec \in Sections(full_response[c]) :
                       /\ cacheOp.translation = Trim(sec.mid)
                       /\ cacheOp.keyword_analysis =
                             IF Trim(sec.post) = <<>> THEN None ELSE Some(Trim(sec.post))
               ELSE /\ cacheOp.translation = full_response[c]
                    /\ cacheOp.keyword_analysis = None

\* C28: for each translation the UI channel receives UpdateTranslation
\* messages followed by at most one terminal message (TranslationComplete,
\* TranslationCancelled or Error); nothing of that translation is sent after
\* its terminal message, and the channel holds the messages in that order.
C28_OneTerminalMessage ==
    /\ \A c \in Calls :
          \A i \in 1 .. Len(uiHist[c]) :
              IF i < Len(uiHist[c])
              THEN uiHist[c][i].type = "UpdateTranslation"
              ELSE uiHist[c][i].type = "UpdateTranslation" \/ fwPc[c] = "done"
    /\ \A i \in 1 .. Len(uiQ) :
          IsTerminalMsg(uiQ[i]) =>
              \/ i = Len(uiQ)
              \/ \E c \in Calls : fwPc[c] = "done" /\ uiQ[i] = Last(uiHist[c])

\* A translation sent two updates and then its terminal message, and the UI
\* has not yet taken all of them from the channel.
C28_Witness ==
    \E c \in Calls :
        /\ Len(uiHist[c]) = 3
        /\ IsTerminalMsg(Last(uiHist[c]))
        /\ fwPc[c] = "done"
        /\ uiQ # <<>>

\* C29: a step of start_translation taken while is_translating is true
\* starts no translate call and no forwarding task and leaves the cancel
\* flag, the translator (the request and its tasks) and the display as they
\* are; a step that makes is_translating false is one in which the UI
\* processes the terminal message of the running translation.
C29_SingleFlight ==
    [][/\ (is_translating /\ (refused' # refused \/ calls' # calls)) =>
             /\ calls' = calls
             /\ UNCHANGED <<fwdVars, transVars, streamVars>>
             /\ UNCHANGED <<cancel_requested, is_translating, display_translation,
                            display_error, uiQ>>
       /\ (is_translating /\ ~is_translating') =>
             /\ uiQ' = <<>>
             /\ uiHist[calls] # <<>>
             /\ fwPc[calls] = "done"
             /\ IsTerminalMsg(Last(uiHist[calls]))
             /\ \E i \in 1 .. Len(uiQ) : uiQ[i] = Last(uiHist[calls])
      ]_vars

\* start_translation was refused while a translation was running, and that
\* translation has ended since: its terminal message was processed.
C29_Witness ==
    /\ refused
    /\ calls = 1
    /\ ~is_translating
    /\ fwPc[1] = "done"
    /\ uiQ = <<>>

\* The values the forwarding task of a call has received from translate's
\* channel, read off the UI messages it made of them, and then the values
\* that wait in the channel.
RECURSIVE ReceivedValues(_)
ReceivedValues(msgs) ==
    IF msgs = <<>> THEN <<>>
    ELSE LET m == Head(msgs)
         IN  (IF m.type = "UpdateTranslation" THEN <<Ok(m.text)>>
              ELSE IF m.type = "TranslationComplete" THEN <<Ok(<<>>)>>
              ELSE IF m.type = "Error" THEN <<[ok |-> FALSE, val |-> m.text]>>
              ELSE <<>>) \o ReceivedValues(Tail(msgs))

Delivered(c) == ReceivedValues(uiHist[c]) \o txQ[c]

\* C30: a step in which the set of a call's translator task fails to write
\* the cache file still ends with set returned, the new entry in the map,
\* and every delta and the terminal marker of the call received by (or in
\* the channel of) the consumer of translate.
C30_WriteFailureHarmless ==
    [][\A c \in Calls :
          (c \notin cacheWrites /\ c \in cacheWrites' /\ ~cacheOp'.saved) =>
              /\ trPc'[c] = "done"
              /\ CacheGet(cache', req[c].text, req[c].lang, req[c].flag)
                    = Some(<<cacheOp'.translation, cacheOp'.keyword_analysis>>)
              /\ cache_file' = cache_file
              /\ Delivered(c)' = stHist'[c]
              /\ IsEmptyOk(Last(stHist'[c]))
              /\ \A i \in 1 .. Len(stHist'[c]) - 1 : IsDelta(stHist'[c][i])
      ]_vars

\* C16: an AudioCache.set whose insert takes the map over max_entries returns
\* to its caller with the oldest batch evicted and the map within the limit;
\* it never ends in a lock() that cannot return (blocked for ever, or a
\* panic of the calling thread).
C16_EvictingSetReturns ==
    \A t \in AudioThreads :
        audio_call[t].over =>
            /\ audio_call[t].pc \notin {"blocked", "panicked"}
            /\ (audio_call[t].pc = "idle" =>
                    Cardinality(DOMAIN audio_cache) <= AudioMaxEntries)

\* C22: a get of a text that a set has stored with a path whose file still
\* exists (no clear, no later set of the text and no new cache since) is
\* not kept from its lock by a thread that will never release it, and it
\* returns that path.
C22_SetThenGet ==
    [][\A t \in AudioThreads :
          LET call == audio_call[t]
          IN  (/\ call.pc = "get_lock"
               /\ call.text \in DOMAIN audio_stored
               /\ audio_stored[call.text] \in audio_files) =>
                  /\ audio_mutex = NoThread \/ audio_call[audio_mutex].pc # "blocked"
                  /\ audio_call'[t].pc # "get_lock" =>
                         /\ audio_call'[t].outcome = "got"
                         /\ audio_call'[t].result = Some(audio_stored[call.text])
      ]_vars

\* C23: a get that returns hands out a path only when the file of that
\* path exists at that moment, and hands out nothing when the text has an
\* entry whose file is missing.
C23_GetOnlyExisting ==
    [][\A t \in AudioThreads :
          (audio_call[t].pc = "get_lock" /\ audio_call'[t].outcome = "got") =>
              LET key == AudioKey(audio_call[t].text)
                  result == audio_call'[t].result
              IN  /\ result # None => result[1] \in audio_files'
                  /\ (key \in DOMAIN audio_cache
                        /\ audio_cache[key].audio_path \notin audio_files)
                       => result = None
      ]_vars

\* A get has returned nothing for a text whose entry it found with the file
\* missing.
C23_Witness ==
    \E t \in AudioThreads :
        /\ audio_call[t].outcome = "got"
        /\ audio_call[t].result = None
        /\ audio_call[t].referenced # {}

\* C24: in a sequential series of sets whose file deletions succeed, a set
\* that overwrites a key with a different path deletes the previous file, a
\* set that evicts deletes the files of the evicted entries, a set that
\* overwrites a key with the same path deletes nothing, and every cached
\* file still on disk is referenced by an entry of the map.
C24_NoOrphans ==
    [][/\ (audio_cached' \cap audio_files') \subseteq MapPaths(audio_cache')
       /\ \A t \in AudioThreads :
             (audio_call[t].pc = "set_lock" /\ audio_call'[t].pc \in {"save_lock", "cleanup_save"}) =>
                 LET call == audio_call[t]
                     key == AudioKey(call.text)
                     inserted == MapInsert(audio_cache, key, call.entry[1])
                 IN  /\ (key \in DOMAIN audio_cache
                           /\ audio_cache[key].audio_path # call.audio_path)
                          => audio_cache[key].audio_path \notin audio_files'
                     /\ \A k \in DOMAIN inserted \ DOMAIN audio_cache' :
                            inserted[k].audio_path \notin audio_files'
                     /\ (key \in DOMAIN audio_cache
                           /\ audio_cache[key].audio_path = call.audio_path)
                          => audio_files' = audio_files
      ]_vars

\* A set has overwritten the entry of its text with a different path and
\* deleted the file of the previous entry.
C24_Witness ==
    \E t \in AudioThreads :
        /\ audio_call[t].pc = "save_lock"
        /\ audio_call[t].referenced # {}
        /\ audio_call[t].referenced \cap audio_files = {}
        /\ AudioKey(audio_call[t].text) \in DOMAIN audio_cache
        /\ audio_cache[AudioKey(audio_call[t].text)].audio_path = audio_call[t].audio_path

\* C25: when clear returns, the map is empty, every audio file an entry
\* referenced before the call is deleted, the index file is deleted, and an
\* AudioCache made then on the same directory loads no entries.
C25_ClearDeletesAll ==
    [][\A t \in AudioThreads :
          (audio_call[t].pc = "clear_again" /\ audio_call'[t].outcome = "cleared") =>
              /\ Cardinality(DOMAIN audio_cache') = 0
              /\ audio_call[t].referenced \cap audio_files' = {}
              /\ ~index_file'.exists
              /\ AudioLoad(index_file', audio_files') = EmptyMap
      ]_vars

\* C25 (amended): when clear returns, the map is empty; when no removal
\* has failed, every audio file an entry referenced before the call and the
\* index file are deleted; and when the index file is deleted, an
\* AudioCache made then on the same directory loads no entries.
C25_ClearEmptiesMap ==
    [][\A t \in AudioThreads :
          (audio_call[t].pc = "clear_again" /\ audio_call'[t].outcome = "cleared") =>
              /\ Cardinality(DOMAIN audio_cache') = 0
              /\ ~audio_call'[t].failed =>
                     /\ audio_call[t].referenced \cap audio_files' = {}
                     /\ ~index_file'.exists
              /\ ~index_file'.exists =>
                     AudioLoad(index_file', audio_files') = EmptyMap
      ]_vars

\* A clear of a cache with entries has returned without a failed removal,
\* and the files of the entries and the index file are gone.
C25_Witness ==
    \E t \in AudioThreads :
        /\ audio_call[t].outcome = "cleared"
        /\ audio_call[t].referenced # {}
        /\ ~audio_call[t].failed
        /\ audio_call[t].referenced \cap audio_files = {}
        /\ ~index_file.exists
        /\ audio_cache = EmptyMap

\* The call records right after AudioCache::new.
AfterNew ==
    [t \in AudioThreads |->
        IF t = UiThread THEN [NoAudioCall EXCEPT !.outcome = "new"] ELSE NoAudioCall]

\* C26: right after the cache is loaded from its index, every entry of the
\* map references a file that exists; the index entries whose file is
\* missing are not in the map, and those whose file exists are all in it,
\* under their hash key and with their path and timestamp; nothing else is.
C26_LoadKeepsExisting ==
    [][(audio_call' = AfterNew /\ audio_files' = audio_files) =>
          /\ \A k \in DOMAIN audio_cache' : audio_cache'[k].audio_path \in audio_files'
          /\ ~index_file.exists => audio_cache' = EmptyMap
          /\ index_file.exists =>
                /\ \A e \in index_file.content :
                      IF e.audio_path \in audio_files
                      THEN /\ e.text_hash \in DOMAIN audio_cache'
                           /\ audio_cache'[e.text_hash]
                                 = AudioCacheEntry(e.audio_path, e.timestamp)
                      ELSE e.text_hash \notin DOMAIN audio_cache'
                /\ \A k \in DOMAIN audio_cache' :
                      \E e \in index_file.content : e.text_hash = k
      ]_vars

\* A cache has been loaded from an index with an entry whose file is
\* missing, which it dropped, and an entry whose file exists, which it kept.
C26_Witness ==
    /\ audio_call = AfterNew
    /\ index_file.exists
    /\ audio_cache = AudioLoad(index_file, audio_files)
    /\ \E e \in index_file.content :
          e.audio_path \notin audio_files /\ e.text_hash \notin DOMAIN audio_cache
    /\ \E e \in index_file.content :
          e.audio_path \in audio_files /\ e.text_hash \in DOMAIN audio_cache

\* C31: once the cancel flag is set while the forwarding loop of a
\* translation waits, the loop eventually stops, also when the stream
\* delivers nothing more.
C31_CancelObservedByTimer ==
    \A c \in Calls : (cancel_requested /\ fwPc[c] = "wait") ~> (fwPc[c] = "done")

\* C32: an empty-string success value is on the channel of stream_chat and
\* on the channel of translate only as the last value, and when
\* TranslationComplete has been sent to the UI every value that translate's
\* channel carried before the terminal marker has been sent to the UI as
\* an update.
C32_EmptyOnlyLast ==
    \A c \in Calls :
        /\ \A i \in 1 .. Len(stHist[c]) - 1 : ~IsEmptyOk(stHist[c][i])
        /\ \A i \in 1 .. Len(txHist[c]) - 1 : ~IsEmptyOk(txHist[c][i])
        /\ HasMsg(c, "TranslationComplete") =>
               Len(UpdateList(uiHist[c])) = Len(txHist[c]) - 1

\* C33: the translator task never dies in parse_translation_and_keywords,
\* and a task that has ended with a response that is not empty has written
\* the cache.
C33_ParseTotal ==
    \A c \in Calls :
        /\ trPc[c] # "panicked"
        /\ (trPc[c] = "done" /\ full_response[c] # <<>>) => c \in cacheWrites

\* The terminal messages among the messages sent to the UI for a call.
TerminalMsgs(c) == {i \in 1 .. Len(uiHist[c]) : IsTerminalMsg(uiHist[c][i])}

\* The UI has been sent exactly one terminal message for call c, the last
\* call started, has processed it, and a new translation can be started.
Settled(c) ==
    /\ c = calls
    /\ fwPc[c] = "done"
    /\ Cardinality(TerminalMsgs(c)) = 1
    /\ uiQ = <<>>
    /\ ~is_translating

Outstanding(c) == stPc[c] \in {"send", "read"} \/ trPc[c] \in {"start", "recv"}

\* C35: at most one translation request is outstanding at any time, and
\* no translator task of an earlier translation writes the cache while a
\* later translation runs.
C35_OneOutstanding ==
    [][/\ Cardinality({c \in Calls : Outstanding(c)'}) <= 1
       /\ \A c \in Calls :
             (c \notin cacheWrites /\ c \in cacheWrites') =>
                 ~(c < calls /\ is_translating)
      ]_vars

\* C36: when every set and clear on the TranslationCache has returned (no
\* write or removal having failed), the cache file holds exactly the entries
\* of the map, or there is no file and the map is empty.
C36_QuiescentConsistent ==
    (\A t \in CacheThreads : cache_call[t].pc = "idle") =>
        \/ cache_file = SavedFile(cache)
        \/ cache_file = NoFile /\ cache = EmptyMap

\* Calls of the two threads that ran at the same time have all returned, and
\* the file holds the two entries of the map.
C36_Witness ==
    /\ \A t \in CacheThreads : cache_call[t].pc = "idle" /\ cache_call[t].overlap
    /\ Cardinality(DOMAIN cache) = 2
    /\ cache_file = SavedFile(cache)

\* C37: when the sets of the TTS threads have all returned, none of them
\* having evicted and no write having failed, the index file lists exactly
\* the entries of the map.
C37_IndexComplete ==
    (/\ \A t \in TtsThreads : audio_call[t].pc = "idle" /\ ~audio_call[t].over
     /\ \E t \in TtsThreads : audio_call[t].outcome = "stored") =>
        /\ index_file.exists
        /\ index_file.content = IndexEntries(audio_cache)

\* C38: every entry that a clear drops from the map, in whatever way the
\* clear is interleaved with a set, has no file left on disk.
C38_ClearDeletesDropped ==
    [][\A t \in AudioThreads :
          (audio_call[t].pc = "clear_again" /\ audio_call'[t].outcome = "cleared") =>
              \A k \in DOMAIN audio_cache \ DOMAIN audio_cache' :
                  audio_cache[k].audio_path \notin audio_files'
      ]_vars

\* C39: the callback of a conversion that was cancelled neither stores its
\* audio in the AudioCache nor sends a completion message, also when a new
\* conversion of the same type is started before the cancelled one ends.
C39_CancelledStaysSilent ==
    \A t \in TtsThreads :
        tts_task[t].cancelled => ~tts_task[t].stored /\ ~tts_task[t].sent

====
